---------------------------- MODULE Spec2Model ----------------------------
(***************************************************************************)
(* A model of the TetaNES control deck glue:                               *)
(*   - src/src/ppu/frame.rs : the double-buffered Frame and its decoders   *)
(*   - src/src/nes.rs       : Nes::clock_frame / Nes::clock_seconds        *)
(*   - src/src/mapper.rs    : the MemMap / Mapped defaults and Empty       *)
(*   - src/src/nes.rs       : Nes::on_start / Nes::on_update               *)
(*   - src/src/nes/event.rs : the input and emulator-state handlers        *)
(* The specifications share the variables; each one moves only its own     *)
(* component and leaves the others in their constructed state.             *)
(***************************************************************************)
EXTENDS Integers, Sequences, FiniteSets, TLC

VARIABLES
    \* ---- ppu::Frame (frame.rs:14-31)
    num,              \* Frame.num, the frame counter
    front_buffer,     \* Frame.front_buffer : [0..NumPixels-1 -> u16]
    back_buffer,      \* Frame.back_buffer
    output_buffer,    \* Frame.output_buffer : [0..RENDER_SIZE-1 -> u8]
    prev_pixel,       \* Frame.prev_pixel
    frame_panic,      \* "none", or the failed assertion / index that aborted
    frame_op,         \* history: the last Frame operation that ran
    \* ---- Nes (nes.rs:37-75) and the deck it clocks
    pc,               \* which deck loop the host is inside
    cpu_break,        \* Nes.cpu_break
    frame_complete,   \* Nes.cpu.bus.ppu.frame_complete
    cycles_remaining, \* Nes.cycles_remaining
    cycles_owed,      \* history: cycles clock_seconds was asked for less those run
    ppu_dot,          \* PPU position inside the frame, in dots
    jammed,           \* the CPU has executed a KIL opcode
    tick,             \* history: parity of the number of clock() calls
    last_exit,        \* history: why the last deck loop returned
    open_bus,         \* Bus open-bus latch
    bus_src,          \* history: what answered the last CPU bus read
    powered,          \* history: power_on has run
    deck_panic,       \* "none", or the index that aborted the clock loop
    \* ---- mapper::Mapper (mapper.rs:49-62)
    mapper,           \* the cartridge mapper variant and its mirroring
    call,             \* history: the last mapper method called and its result
    \* ---- Nes::on_update (nes.rs:227-306)
    samples,          \* Nes.cpu.bus.apu sample buffer, oldest first
    audio_queue,      \* history: the samples handed to data.enqueue_audio
    handed,           \* history: the samples the last on_update handed over
    next_sample,      \* history: how many samples the APU has produced
    sound_enabled,    \* Nes.config.sound_enabled
    should_close,     \* Nes.should_close
    paused,           \* Nes.paused
    lost_focus,       \* Nes.lost_focus
    update_result,    \* history: what the last on_update returned
    rewind_enabled,   \* Nes.config.rewind_enabled
    save_enabled,     \* Nes.config.save_enabled
    speed,            \* Nes.config.speed, in percent
    unlock_fps,       \* Nes.config.unlock_fps
    rewind_timer,     \* Nes.rewind_timer, in seconds
    rewind_save,      \* Nes.rewind_save
    rewind_queue,     \* Nes.rewind_queue, oldest first
    rewind_slot,      \* Nes.rewind_slot
    speed_counter,    \* Nes.speed_counter
    turbo_clock,      \* Nes.turbo_clock
    nes_clock,        \* Nes.clock, the seconds the deck has been run for
    snap_taken,       \* history: the last on_update took a rewind snapshot
    last_saved,       \* history: the slot of the last rewind snapshot, 0 if none
    since_snapshot,   \* history: seconds since the last snapshot, up to REWIND_TIMER
    update_clocked,   \* history: the last on_update clocked the deck itself
    frames_now,       \* history: clock_frame calls of the last on_update
    frames_run,       \* history: clock_frame calls of all updates
    speed_updates,    \* history: the updates that ran unpaused
    \* ---- the gamepads (event.rs:558-595)
    gamepads,         \* control_deck.gamepad_mut(slot), for every slot
    concurrent_dpad,  \* Nes.config.concurrent_dpad
    dpad_ever,        \* history: concurrent_dpad has been enabled at some time
    pad_cleared,      \* history: the last press released the opposite direction
    \* ---- Nes::on_start (nes.rs:167-225)
    started,          \* "new", or what on_start returned
    roms,             \* Nes.roms, the number of ROMs find_roms finds
    clear_save,       \* Nes.config.clear_save
    save_file,        \* the save-state file of config.save_slot on disk
    genie_codes,      \* Nes.config.genie_codes
    deck_state,       \* the state of each deck component (CPU, PPU, ...)
    genie,            \* the Game Genie codes active on the bus
    messages,         \* Nes.messages
    load_result,      \* history: how load_state ended
    before_load,      \* history: deck_state when load_state was called
    slot_files,       \* the other save slots of the ROM that are on disk
    \* ---- the clocked core: ControlDeck::clock, the PPU counters
    nes_region,       \* the deck's region
    scanline,         \* PPU scanline counter
    dot,              \* PPU dot counter
    odd_frame,        \* PPU odd/even frame flag
    rendering,        \* background rendering is enabled (PPUMASK)
    pal_acc,          \* the deck's fractional dot accumulator, in fifths
    core_jam,         \* the CPU has executed a KIL opcode
    cpu_pc,           \* CPU program counter
    core_cycles,      \* history: CPU cycles consumed since the region was set
    core_dots,        \* history: PPU dots advanced since the region was set
    core_apu,         \* history: APU clocks since the region was set
    core_ret,         \* history: what clock() returned, -1 after any other call
    \* ---- the CPU cycle by cycle: OAM DMA and interrupts
    cpu_odd,          \* the CPU cycle counter is odd
    instr_left,       \* cycles the instruction in progress still takes
    cur_op,           \* what the instruction in progress does when it ends
    dma_left,         \* cycles the OAM DMA still stalls the CPU for
    dma_odd,          \* history: the last OAM DMA started on an odd cycle
    dma_started,      \* history: an OAM DMA has been started
    oam_copied,       \* bytes the OAM DMA has copied to OAM
    stall_cycles,     \* history: cycles the CPU was stalled by the last DMA
    stall_ppu,        \* history: PPU dots clocked during that stall
    stall_apu,        \* history: APU clocks during that stall
    nmi_latch,        \* the latched NMI edge
    irq_line,         \* the IRQ line level
    flag_i,           \* the interrupt-disable flag
    cpu_event,        \* history: what the CPU did in its last cycle
    \* ---- the UI around the deck (event.rs:423-462)
    ui_mode,          \* Nes.mode
    ui_error,         \* Nes.error
    ui_message,       \* the message add_message queued last
    engine,           \* the engine loop: "run" (s.run(true)) or "quit" (s.quit())
    deck_running,     \* control_deck.is_running()
    cpu_sp,           \* CPU stack pointer
    cpu_i,            \* CPU interrupt-disable flag
    ppu_w,            \* PPU write toggle
    wram,             \* work RAM, at the addresses followed
    \* ---- key events (event.rs:255-282, 378-420)
    key_bindings,     \* Nes.config.input_bindings for one key or button, by slot
    fullscreen,       \* Nes.config.fullscreen
    debugging,        \* Nes.debugger.is_some()
    rewinding,        \* Nes.rewinding
    last_key,         \* history: pressed and repeat of the last key event
    key_ran,          \* history: the slots whose bound action that event ran
    key_stepped,      \* history: that event clocked the deck for the debugger
    key_result,       \* history: what the event's handler returned
    key_erred,        \* history: an action that event ran returned an error
    last_source,      \* history: "key", "button" or "axis", the last event's kind
    \* ---- the debugger steps (event.rs:598-664) and the CPU they clock
    step_at,          \* which loop of handle_debug the host is inside
    step_prog,        \* the program in memory
    step_pc,          \* control_deck.pc()
    step_stack,       \* the CPU stack, one return address a slot
    step_sp,          \* the CPU stack pointer, in slots
    step_jam,         \* the CPU has executed a KIL opcode
    rti_addr,         \* the address StepOver runs to
    step_last,        \* history: the debug action run last
    \* ---- the zapper and the mouse (event.rs:284-315)
    emulation,        \* Nes.emulation is Some(view)
    scale,            \* Nes.config.scale
    zapper_pos,       \* control_deck.zapper().pos
    trigger_calls,    \* history: calls of zapper.trigger()
    last_mouse,       \* history: the last mouse event and the window focus
    mouse_mode,       \* history: Nes.mode when that event came in
    mouse_result      \* history: what the mouse handler returned

frameVars == <<num, front_buffer, back_buffer, output_buffer, prev_pixel,
               frame_panic, frame_op>>
deckVars == <<pc, cpu_break, frame_complete, cycles_remaining, cycles_owed, ppu_dot,
              jammed, tick, last_exit, open_bus, bus_src, powered, deck_panic>>
mapVars == <<mapper, call>>
updVars == <<samples, audio_queue, handed, next_sample, sound_enabled, should_close,
             paused, lost_focus, update_result, rewind_enabled, save_enabled, speed,
             unlock_fps, rewind_timer, rewind_save, rewind_queue, rewind_slot,
             speed_counter, turbo_clock, nes_clock, snap_taken, last_saved,
             since_snapshot, update_clocked, frames_now, frames_run, speed_updates>>
padVars == <<gamepads, concurrent_dpad, dpad_ever, pad_cleared>>
startVars == <<started, roms, clear_save, save_file, genie_codes, deck_state,
               genie, messages, load_result, before_load, slot_files>>
coreVars == <<nes_region, scanline, dot, odd_frame, rendering, pal_acc,
              core_jam, cpu_pc, core_cycles, core_dots, core_apu, core_ret>>
cpuVars == <<cpu_odd, instr_left, cur_op, dma_left, dma_odd, dma_started,
             oam_copied, stall_cycles, stall_ppu, stall_apu, nmi_latch, irq_line,
             flag_i, cpu_event>>
uiVars == <<ui_mode, ui_error, ui_message, engine, deck_running, cpu_sp, cpu_i,
            ppu_w, wram>>
keyVars == <<key_bindings, fullscreen, debugging, rewinding, last_key, key_ran,
             key_stepped, key_result, key_erred, last_source>>
stepVars == <<step_at, step_prog, step_pc, step_stack, step_sp, step_jam,
              rti_addr, step_last>>
zapVars == <<emulation, scale, zapper_pos, trigger_calls, last_mouse, mouse_mode,
             mouse_result>>
vars == <<frameVars, deckVars, mapVars, updVars, padVars, startVars, coreVars,
          cpuVars, uiVars, keyVars, stepVars, zapVars>>

\* A step of one component leaves the others alone.
FrameOnly ==
    UNCHANGED <<deckVars, mapVars, updVars, padVars, startVars,
                coreVars, cpuVars, uiVars,
                keyVars, stepVars, zapVars>>

DeckOnly ==
    UNCHANGED <<frameVars, mapVars, updVars, padVars, startVars,
                coreVars, cpuVars, uiVars,
                keyVars, stepVars, zapVars>>

MapperOnly ==
    UNCHANGED <<frameVars, deckVars, updVars, padVars, startVars,
                coreVars, cpuVars, uiVars,
                keyVars, stepVars, zapVars>>

\* on_update also clocks the deck (cycles_remaining) and saves rewind
\* snapshots to disk (slot_files).
UpdateOnly ==
    /\ UNCHANGED <<frameVars, mapVars, padVars, coreVars, cpuVars, uiVars, keyVars,
                   stepVars, zapVars>>
    /\ UNCHANGED <<pc, cpu_break, frame_complete, cycles_owed, ppu_dot, jammed, tick,
                   last_exit, open_bus, bus_src, powered, deck_panic>>
    /\ UNCHANGED <<started, roms, clear_save, save_file, genie_codes, deck_state,
                   genie, messages, load_result, before_load>>

PadOnly ==
    UNCHANGED <<frameVars, deckVars, mapVars, updVars, startVars,
                coreVars, cpuVars, uiVars,
                keyVars, stepVars, zapVars>>

\* A key event reaches the gamepads, the mode and the speed setting.
KeyOnly ==
    /\ UNCHANGED <<frameVars, deckVars, mapVars, startVars, coreVars, cpuVars,
                   stepVars, zapVars>>
    /\ UNCHANGED <<samples, audio_queue, handed, next_sample, sound_enabled,
                   should_close, paused, lost_focus, update_result, rewind_enabled,
                   save_enabled, unlock_fps, rewind_timer, rewind_save, rewind_queue,
                   rewind_slot, speed_counter, turbo_clock, nes_clock, snap_taken,
                   last_saved, since_snapshot, update_clocked, frames_now, frames_run,
                   speed_updates>>
    /\ UNCHANGED <<concurrent_dpad, dpad_ever, pad_cleared>>
    /\ UNCHANGED <<ui_error, ui_message, engine, deck_running, cpu_sp, cpu_i, ppu_w,
                   wram>>

\* A debugger step clocks the CPU and may pause the emulation.
StepOnly ==
    /\ UNCHANGED <<frameVars, deckVars, mapVars, updVars, padVars, startVars,
                   coreVars, cpuVars, keyVars, zapVars>>
    /\ UNCHANGED <<ui_error, ui_message, engine, deck_running, cpu_sp, cpu_i, ppu_w,
                   wram>>

\* A mouse event reaches the zapper only.
MouseOnly ==
    UNCHANGED <<frameVars, deckVars, mapVars, updVars, padVars, startVars,
                coreVars, cpuVars, uiVars, keyVars, stepVars>>

StartOnly ==
    UNCHANGED <<frameVars, deckVars, mapVars, updVars, padVars,
                coreVars, cpuVars, uiVars,
                keyVars, stepVars, zapVars>>

CoreOnly ==
    UNCHANGED <<frameVars, deckVars, mapVars, updVars, padVars,
                startVars, cpuVars, uiVars,
                keyVars, stepVars, zapVars>>

CpuOnly ==
    UNCHANGED <<frameVars, deckVars, mapVars, updVars, padVars,
                startVars, coreVars, uiVars,
                keyVars, stepVars, zapVars>>

UiOnly ==
    UNCHANGED <<frameVars, deckVars, mapVars, updVars, padVars,
                startVars, coreVars, cpuVars,
                keyVars, stepVars, zapVars>>

---------------------------------------------------------------------------
(* Machine arithmetic *)

RECURSIVE BitAnd(_, _)
BitAnd(a, b) ==
    IF a = 0 \/ b = 0 THEN 0
    ELSE (a % 2) * (b % 2) + 2 * BitAnd(a \div 2, b \div 2)

ShiftRight(a, n) == a \div (2 ^ n)

ShiftLeft(a, n) == a * (2 ^ n)

AsU8(a) == a % 256

Min(a, b) == IF a <= b THEN a ELSE b

Len0(f) == Cardinality(DOMAIN f)

---------------------------------------------------------------------------
(* ppu::Frame -- src/src/ppu/frame.rs *)

\* The row stride is 2^RowShift pixels (8 in the source: `y << 8`, `idx % 256`).
RowShift == 1

\* Rows of the frame (240 in the source).
RENDER_HEIGHT == 2

\* Highest frame number the model counts to (u32 in the source).
MaxNum == 1

RENDER_WIDTH == 2 ^ RowShift

RENDER_CHANNELS == 4

NumPixels == RENDER_WIDTH * RENDER_HEIGHT

RENDER_SIZE == NumPixels * RENDER_CHANNELS

SYSTEM_PALETTE_SIZE == 64

\* The master palette: SYSTEM_PALETTE_SIZE (red, green, blue) entries.
SYSTEM_PALETTE(i) == <<i, 64 + i, 255 - i>>

SYSTEM_PALETTE_LEN == SYSTEM_PALETTE_SIZE

\* vec![0; 512 * 64 * 3]
NTSC_PALETTE_LEN == 512 * 64 * 3

\* An entry of the NTSC table: a 24-bit 0xRRGGBB value.  The table is filled
\* by floating-point YIQ decoding; only its length and the entry width are
\* modelled, the contents stand for themselves.
NTSC_PALETTE(idx) == (idx * 167 + 12345) % (2 ^ 24)

\* The u16 colours put_pixel is handed: the three neighbours of the 9-bit
\* boundary and the largest u16.
Colors == {0, 511, 512, 65535}

\* The coordinates put_pixel is handed: the first and last pixel of the
\* last row, and one column past the row.
PixelXs == {0, RENDER_WIDTH - 1, RENDER_WIDTH}

PixelYs == {RENDER_HEIGHT - 1}

\* frame.rs:128-144
ResetOutput(out) ==
    [i \in DOMAIN out |->
        IF RENDER_CHANNELS = 4 /\ i >= RENDER_CHANNELS - 1
              /\ (i - (RENDER_CHANNELS - 1)) % RENDER_CHANNELS = 0
        THEN 255 ELSE 0]

\* frame.rs:34-53: the buffers Frame::new allocates, before its reset
NewFront == [i \in 0 .. NumPixels - 1 |-> 0]

NewOutput == [i \in 0 .. RENDER_SIZE - 1 |-> 0]

\* frame.rs:68,73: (x + (y << 8)) as usize
PixelIndex(x, y) == x + ShiftLeft(y, RowShift)

\* frame.rs:84: (*pixel as usize) & (SYSTEM_PALETTE_SIZE - 1)
PaletteIndexMut(pixel) == pixel

PaletteIndex(pixel) == BitAnd(pixel, SYSTEM_PALETTE_SIZE - 1)

\* frame.rs:77,98: assert!(front_buffer.len() * 4 == output_buffer.len())
LenAssert(front, out) == Len0(front) * 4 = Len0(out)

\* frame.rs:78-82: the pairs zip(front_buffer, output_buffer.chunks_exact_mut(4)) yields
ZipLen(front, out) == Min(Len0(front), Len0(out) \div 4)

\* a chunk write shifted by one byte, reaching the alpha byte
PutRgbMut(out, i, r, g, b) ==
    [out EXCEPT ![4 * i + 1] = r, ![4 * i + 2] = g, ![4 * i + 3] = b]

\* frame.rs:85-87 and 118-120: the three bytes written into one chunk
PutRgb(out, i, r, g, b) ==
    [out EXCEPT ![4 * i] = r, ![4 * i + 1] = g, ![4 * i + 2] = b]

\* frame.rs:78-89: the loop of decode_buffer from pixel i on
RECURSIVE DecodeFrom(_, _, _)
DecodeFrom(i, front, out) ==
    IF i >= ZipLen(front, out) THEN [out |-> out, panic |-> "none"]
    ELSE LET p == PaletteIndex(front[i]) IN
         IF p >= SYSTEM_PALETTE_LEN THEN [out |-> out, panic |-> "palette_index"]
         ELSE LET c == SYSTEM_PALETTE(p) IN
              DecodeFrom(i + 1, front, PutRgb(out, i, c[1], c[2], c[3]))

\* frame.rs:111-112
NtscPhase(idx, n) ==
    LET x == idx % RENDER_WIDTH
        y == idx \div RENDER_WIDTH
        even_phase == IF BitAnd(n, 1) = 1 THEN 0 ELSE 1
    IN  (2 + y * 341 + x + even_phase) % 3

\* frame.rs:114: phase + ((prev_pixel & 0x3F) as usize) * 3 + (*pixel as usize) * 3 * 64
NtscIndex(phase, prev, pixel) == phase + BitAnd(prev, 63) * 3 + pixel * 3 * 64

\* frame.rs:99-122: the loop of apply_ntsc_filter from pixel idx on
RECURSIVE NtscFrom(_, _, _, _, _)
NtscFrom(idx, front, out, prev, n) ==
    IF idx >= ZipLen(front, out) THEN [out |-> out, prev |-> prev, panic |-> "none"]
    ELSE LET x == idx % RENDER_WIDTH
             at == NtscIndex(NtscPhase(idx, n), prev, front[idx])
         IN  IF x # 0 /\ at >= NTSC_PALETTE_LEN
             THEN [out |-> out, prev |-> prev, panic |-> "ntsc_index"]
             ELSE LET color == IF x = 0 THEN 0 ELSE NTSC_PALETTE(at) IN
                  NtscFrom(idx + 1, front,
                           PutRgb(out, idx,
                                  AsU8(BitAnd(ShiftRight(color, 16), 255)),
                                  AsU8(BitAnd(ShiftRight(color, 8), 255)),
                                  AsU8(BitAnd(color, 255))),
                           front[idx], n)

\* frame.rs:45: prev_pixel: 0xFFFF_FFFF, held as its low 31 bits (integers
\* here are 32-bit signed); its only read masks it with 0x3F.
PrevPixelNew == 2147483647

\* Frame::new (frame.rs:34-53)
FrameInit ==
    /\ num = 0
    /\ front_buffer = NewFront
    /\ back_buffer = NewFront
    /\ output_buffer = ResetOutput(NewOutput)
    /\ prev_pixel = PrevPixelNew
    /\ frame_panic = "none"
    /\ frame_op = "new"

\* Frame::increment (frame.rs:56-58)
increment ==
    /\ FrameOnly
    /\ frame_panic = "none"
    /\ num < MaxNum
    /\ num' = num + 1
    /\ frame_op' = "increment"
    /\ UNCHANGED <<front_buffer, back_buffer, output_buffer, prev_pixel, frame_panic>>

\* Frame::swap_buffers (frame.rs:61-63)
SwapBuffersMut(front, back) == [front |-> back, back |-> back]

SwapBuffers(front, back) == [front |-> back, back |-> front]

swap_buffers ==
    /\ FrameOnly
    /\ frame_panic = "none"
    /\ LET s == SwapBuffers(front_buffer, back_buffer) IN
          /\ front_buffer' = s.front
          /\ back_buffer' = s.back
    /\ frame_op' = "swap_buffers"
    /\ UNCHANGED <<num, output_buffer, prev_pixel, frame_panic>>

\* Frame::put_pixel (frame.rs:72-74): the buffers after the store
PutPixelMut(front, back, at, color) ==
    [front |-> [front EXCEPT ![at] = color], back |-> back]

PutPixel(front, back, at, color) ==
    [front |-> front, back |-> [back EXCEPT ![at] = color]]

put_pixel(x, y, color) ==
    /\ FrameOnly
    /\ frame_panic = "none"
    /\ frame_op' = "put_pixel"
    /\ LET at == PixelIndex(x, y) IN
         IF at < Len0(back_buffer)
         THEN LET s == PutPixel(front_buffer, back_buffer, at, color) IN
                 /\ front_buffer' = s.front
                 /\ back_buffer' = s.back
                 /\ UNCHANGED <<num, output_buffer, prev_pixel, frame_panic>>
         ELSE /\ frame_panic' = "pixel_index"
              /\ UNCHANGED <<num, front_buffer, back_buffer, output_buffer, prev_pixel>>

\* Frame::decode_buffer (frame.rs:76-91)
decode_buffer ==
    /\ FrameOnly
    /\ frame_panic = "none"
    /\ frame_op' = "decode_buffer"
    /\ IF ~LenAssert(front_buffer, output_buffer)
       THEN /\ frame_panic' = "len_assert"
            /\ UNCHANGED output_buffer
       ELSE LET r == DecodeFrom(0, front_buffer, output_buffer) IN
               /\ output_buffer' = r.out
               /\ frame_panic' = r.panic
    /\ UNCHANGED <<num, front_buffer, back_buffer, prev_pixel>>

\* Frame::apply_ntsc_filter (frame.rs:97-124)
apply_ntsc_filter ==
    /\ FrameOnly
    /\ frame_panic = "none"
    /\ frame_op' = "apply_ntsc_filter"
    /\ IF ~LenAssert(front_buffer, output_buffer)
       THEN /\ frame_panic' = "len_assert"
            /\ UNCHANGED <<output_buffer, prev_pixel>>
       ELSE LET r == NtscFrom(0, front_buffer, output_buffer, prev_pixel, num) IN
               /\ output_buffer' = r.out
               /\ prev_pixel' = r.prev
               /\ frame_panic' = r.panic
    /\ UNCHANGED <<num, front_buffer, back_buffer>>

\* Reset for Frame (frame.rs:127-145)
reset ==
    /\ FrameOnly
    /\ frame_panic = "none"
    /\ num' = 0
    /\ front_buffer' = [i \in DOMAIN front_buffer |-> 0]
    /\ back_buffer' = [i \in DOMAIN back_buffer |-> 0]
    /\ output_buffer' = ResetOutput(output_buffer)
    /\ frame_op' = "reset"
    /\ UNCHANGED <<prev_pixel, frame_panic>>

---------------------------------------------------------------------------
(* mapper::Mapper -- src/src/mapper.rs *)

\* Option<T>
None == <<"None">>

Some(x) == <<"Some", x>>

\* ppu::Mirroring
Mirrorings == {"Horizontal", "Vertical", "SingleScreenA", "SingleScreenB", "FourScreen"}

\* enum MappedRead (mapper.rs:76-84)
MappedRead_None == [tag |-> "None"]

MappedRead_PrgRom(at) == [tag |-> "PrgRom", at |-> at]

\* enum MappedWrite (mapper.rs:86-93)
MappedWrite_None == [tag |-> "None"]

MappedWrite_PrgRam(at, val) == [tag |-> "PrgRam", at |-> at, val |-> val]

\* Mapper::none (mapper.rs:64-68): Empty.into()
Mapper_none == [kind |-> "Empty"]

\* A cartridge mapper that overrides mirroring() with the mode it holds and
\* keeps the default use_ciram.
Mapper_cart(m) == [kind |-> "Cart", mirroring |-> m]

\* MemMap::map_peek (mapper.rs:101-103)
map_peek_mut(m, addr) == MappedRead_PrgRom(addr % 32768)

map_peek(m, addr) == MappedRead_None

\* MemMap::map_read (mapper.rs:98-100)
map_read(m, addr) == map_peek(m, addr)

\* MemMap::map_write (mapper.rs:104-106)
map_write_mut(m, addr, val) == MappedWrite_PrgRam(addr % 8192, val)

map_write(m, addr, val) == MappedWrite_None

\* Mapped::irq_pending (mapper.rs:113-115)
irq_pending(m) == FALSE

\* Mapped::mirroring (mapper.rs:118-120), the default
mirroring_default(m) == None

\* Mapped::mirroring as enum_dispatch routes it (mapper.rs:45-62, 109)
mirroring(m) == IF m.kind = "Cart" THEN m.mirroring ELSE mirroring_default(m)

\* Mapped::use_ciram (mapper.rs:124-126)
use_ciram_mut(m, addr) == mirroring(m) # Some("Horizontal")

use_ciram(m, addr) == mirroring(m) # Some("FourScreen")

\* Mapped::nametable_page (mapper.rs:130-132)
nametable_page(m, addr) == None

\* 16-bit addresses handed to the mapper: both ends of every bus region
Addrs == {0, 8191, 8192, 16415, 16416, 32768, 65532, 65535}

Vals == {0, 255}

\* CPU addresses the deck's bus reads: the last internal address, the first
\* cartridge address, and both ends of PRG ROM space
BusAddrs == {16415, 16416, 32768, 65535}

CallNone == [op |-> "none", addr |-> 0, val |-> 0, ret |-> None]

Regions == {"Ntsc", "Pal", "Dendy"}

MapperInit ==
    /\ mapper \in {Mapper_none} \cup {Mapper_cart(m) : m \in {None} \cup {Some(x) : x \in Mirrorings}}
    /\ call = CallNone

Called(op, addr, val, ret) ==
    call' = [op |-> op, addr |-> addr, val |-> val, ret |-> ret]

call_map_read(addr) ==
    /\ MapperOnly
    /\ Called("map_read", addr, 0, map_read(mapper, addr))
    /\ UNCHANGED mapper

call_map_peek(addr) ==
    /\ MapperOnly
    /\ Called("map_peek", addr, 0, map_peek(mapper, addr))
    /\ UNCHANGED mapper

call_map_write(addr, val) ==
    /\ MapperOnly
    /\ mapper.kind = "Empty"
    /\ Called("map_write", addr, val, map_write(mapper, addr, val))
    /\ UNCHANGED mapper

\* A cartridge's register write that selects a mirroring mode (MMC1, AxROM ...)
cart_set_mirroring(addr, val, m) ==
    /\ MapperOnly
    /\ mapper.kind = "Cart"
    /\ Called("map_write", addr, val, MappedWrite_None)
    /\ mapper' = Mapper_cart(Some(m))

call_irq_pending ==
    /\ MapperOnly
    /\ Called("irq_pending", 0, 0, irq_pending(mapper))
    /\ UNCHANGED mapper

call_mirroring ==
    /\ MapperOnly
    /\ Called("mirroring", 0, 0, mirroring(mapper))
    /\ UNCHANGED mapper

call_use_ciram(addr) ==
    /\ MapperOnly
    /\ Called("use_ciram", addr, 0, use_ciram(mapper, addr))
    /\ UNCHANGED mapper

\* Mapped::ppu_addr (mapper.rs:135)
call_ppu_addr(addr) ==
    /\ MapperOnly
    /\ Called("ppu_addr", addr, 0, None)
    /\ UNCHANGED mapper

\* Mapped::ppu_read (mapper.rs:138)
call_ppu_read(addr) ==
    /\ MapperOnly
    /\ Called("ppu_read", addr, 0, None)
    /\ UNCHANGED mapper

\* Mapped::ppu_write (mapper.rs:141)
call_ppu_write(addr, val) ==
    /\ MapperOnly
    /\ Called("ppu_write", addr, val, None)
    /\ UNCHANGED mapper

\* Mapped::set_region (mapper.rs:144)
call_set_region(region) ==
    /\ MapperOnly
    /\ Called("set_region", 0, 0, None)
    /\ UNCHANGED mapper

---------------------------------------------------------------------------
(* The control deck and its loops -- src/src/nes.rs *)

\* PPU dots in one frame (341 * 262 on NTSC).
FrameDots == 12

\* Most CPU cycles one clock() consumes (7 for an instruction of the 6502).
MaxInstrCycles == 2

\* Most cycles one clock_seconds call asks for (CPU_CLOCK_RATE * seconds).
MaxSecondsCycles == 3

\* PPU dots per CPU cycle on NTSC.
DotsPerCycle == 3

\* First CPU address the cartridge answers (0x4020).
CartStart == 16416

\* Address of the reset vector (0xFFFC).
ResetVector == 65532

\* Length of the loaded cartridge's PRG memory; no cartridge, no memory.
CartLen(m) == 0

\* Bus read of the CPU: internal RAM and registers answer below CartStart
\* with the byte `data`; above it the mapper decides, and an unmapped read
\* returns the open-bus latch.
BusRead(m, addr, data, latch) ==
    IF addr < CartStart THEN [val |-> data, src |-> "internal", panic |-> "none"]
    ELSE LET r == map_read(m, addr) IN
         IF r.tag = "None" THEN [val |-> latch, src |-> "mapper", panic |-> "none"]
         ELSE IF r.at < CartLen(m) THEN [val |-> data, src |-> "cart", panic |-> "none"]
         ELSE [val |-> latch, src |-> "cart", panic |-> "cart_index"]

\* CPU cycles clock() returns: the instruction's, or 0 once the CPU is jammed.
ClockCycles(c) == IF jammed THEN 0 ELSE c

\* Nes::clock: one CPU instruction of c cycles fetched from addr, then the
\* PPU for 3 dots a cycle.  brk: a breakpoint is hit; kil: the opcode is KIL.
clock(c, brk, kil, addr, data) ==
    /\ tick' = ~tick
    /\ UNCHANGED powered
    /\ IF jammed
       THEN UNCHANGED <<cpu_break, frame_complete, ppu_dot, jammed, open_bus,
                        bus_src, deck_panic>>
       ELSE LET r == BusRead(mapper, addr, data, open_bus)
                dots == ppu_dot + DotsPerCycle * c
            IN  /\ open_bus' = r.val
                /\ bus_src' = r.src
                /\ deck_panic' = r.panic
                /\ jammed' = kil
                /\ cpu_break' = (cpu_break \/ brk)
                /\ ppu_dot' = dots % FrameDots
                /\ frame_complete' = (frame_complete \/ dots >= FrameDots)

\* Nes::with_config (nes.rs:83-133)
DeckInit ==
    /\ pc = "idle"
    /\ cpu_break = FALSE
    /\ frame_complete = FALSE
    /\ cycles_remaining = 0
    /\ cycles_owed = 0
    /\ ppu_dot = 0
    /\ jammed = FALSE
    /\ tick = FALSE
    /\ last_exit = "none"
    /\ open_bus = 0
    /\ bus_src = "none"
    /\ powered = FALSE
    /\ deck_panic = "none"

Running == deck_panic = "none"

\* power_on: the CPU restarts from the reset vector
power_on(data) ==
    /\ DeckOnly
    /\ Running /\ pc = "idle"
    /\ LET r == BusRead(mapper, ResetVector, data, open_bus) IN
          /\ open_bus' = r.val
          /\ bus_src' = r.src
          /\ deck_panic' = r.panic
    /\ jammed' = FALSE
    /\ powered' = TRUE
    /\ UNCHANGED <<pc, cpu_break, frame_complete, cycles_remaining, cycles_owed,
                   ppu_dot, tick, last_exit>>

\* nes.clock() called by the host itself (nes.rs:399)
host_clock(c, brk, kil, addr, data) ==
    /\ DeckOnly
    /\ Running /\ pc = "idle"
    /\ clock(c, brk, kil, addr, data)
    /\ UNCHANGED <<pc, cycles_remaining, cycles_owed, last_exit>>

\* nes.rs:147: while !self.cpu_break && !self.cpu.bus.ppu.frame_complete
ClockFrameContinuesMut == ~cpu_break

ClockFrameContinues == ~cpu_break /\ ~frame_complete

\* Nes::clock_frame (nes.rs:146-152), entered
clock_frame_call ==
    /\ DeckOnly
    /\ Running /\ pc = "idle"
    /\ pc' = "clock_frame"
    /\ UNCHANGED <<cpu_break, frame_complete, cycles_remaining, cycles_owed, ppu_dot,
                   jammed, tick, last_exit, open_bus, bus_src, powered, deck_panic>>

\* nes.rs:147-149
clock_frame_loop(c, brk, kil, addr, data) ==
    /\ DeckOnly
    /\ Running /\ pc = "clock_frame"
    /\ ClockFrameContinues
    /\ clock(c, brk, kil, addr, data)
    /\ UNCHANGED <<pc, cycles_remaining, cycles_owed, last_exit>>

\* nes.rs:150-151
clock_frame_return ==
    /\ DeckOnly
    /\ Running /\ pc = "clock_frame"
    /\ ~ClockFrameContinues
    /\ cpu_break' = FALSE
    /\ frame_complete' = FALSE
    /\ pc' = "idle"
    /\ last_exit' = IF cpu_break THEN "cpu_break" ELSE "frame_complete"
    /\ UNCHANGED <<cycles_remaining, cycles_owed, ppu_dot, jammed, tick, open_bus,
                   bus_src, powered, deck_panic>>

\* Bits of the significand of cycles_remaining (24 in an f32, nes.rs:44).
MantissaBits == 2

RECURSIVE Pow2(_)
Pow2(n) == IF n = 0 THEN 1 ELSE 2 * Pow2(n - 1)

\* The distance between neighbouring floats at magnitude a: single cycles
\* below 2^MantissaBits, doubling with every power of two above.
RECURSIVE Ulp(_)
Ulp(a) == IF a < Pow2(MantissaBits) THEN 1 ELSE 2 * Ulp(a \div 2)

\* A number of cycles as the f32 holds it: rounded to the nearest float,
\* a tie going to the even significand.
AsF32(x) ==
    LET a == IF x < 0 THEN 0 - x ELSE x
        u == Ulp(a)
        q == a \div u
        r == a % u
        m == IF 2 * r < u THEN q
             ELSE IF 2 * r > u THEN q + 1
             ELSE IF q % 2 = 0 THEN q ELSE q + 1
    IN  IF x < 0 THEN 0 - m * u ELSE m * u

\* Most cycles the calls of clock_seconds may fall behind by.
MaxOwed == 8

\* A request of more cycles than the f32 counts singly (CPU_CLOCK_RATE *
\* seconds is above 2^24 from 9.4 s on; nes.rs:382 asks for 23 s).
LongCycles == 3 * Pow2(MantissaBits - 1)

\* nes.rs:156: while !self.cpu_break && self.cycles_remaining > 0.0
ClockSecondsContinues == ~cpu_break /\ cycles_remaining > 0

\* Nes::clock_seconds (nes.rs:154-163), entered: cycles = CPU_CLOCK_RATE * seconds
clock_seconds_call(cycles) ==
    /\ DeckOnly
    /\ Running /\ pc = "idle"
    /\ cycles_owed + cycles <= MaxOwed
    /\ cycles_remaining' = AsF32(cycles_remaining + AsF32(cycles))
    /\ cycles_owed' = cycles_owed + cycles
    /\ pc' = "clock_seconds"
    /\ UNCHANGED <<cpu_break, frame_complete, ppu_dot, jammed, tick, last_exit,
                   open_bus, bus_src, powered, deck_panic>>

\* nes.rs:156-158
clock_seconds_loop(c, brk, kil, addr, data) ==
    /\ DeckOnly
    /\ Running /\ pc = "clock_seconds"
    /\ ClockSecondsContinues
    /\ clock(c, brk, kil, addr, data)
    /\ cycles_remaining' = AsF32(cycles_remaining - ClockCycles(c))
    /\ cycles_owed' = cycles_owed - ClockCycles(c)
    /\ UNCHANGED <<pc, last_exit>>

\* nes.rs:159-162
clock_seconds_return ==
    /\ DeckOnly
    /\ Running /\ pc = "clock_seconds"
    /\ ~ClockSecondsContinues
    /\ cycles_remaining' = IF cpu_break THEN 0 ELSE cycles_remaining
    /\ cycles_owed' = IF cpu_break THEN 0 ELSE cycles_owed
    /\ cpu_break' = FALSE
    /\ pc' = "idle"
    /\ last_exit' = IF cpu_break THEN "cpu_break" ELSE "cycles"
    /\ UNCHANGED <<frame_complete, ppu_dot, jammed, tick, open_bus, bus_src,
                   powered, deck_panic>>

---------------------------------------------------------------------------
(* The host's update callback -- src/src/nes.rs:227-306 *)

\* Most samples the APU produces over the whole run.
MaxSamples == 3

\* Most samples the APU produces while one update clocks the deck.
MaxProduced == 2

\* The samples numbered from + 1 .. from + k, in the order the APU made them.
NewSamples(from, k) == [i \in 1 .. k |-> from + i]

\* nes.rs:299-304 with the `if` skipping the drain as well
AudioStepMut(queue, buf, enabled) ==
    [queue |-> IF enabled THEN queue \o buf ELSE queue,
     samples |-> IF enabled THEN << >> ELSE buf]

\* nes.rs:299-304: hand the samples over when sound is enabled, then
\* clear_samples() in either case
AudioStep(queue, buf, enabled) ==
    [queue |-> IF enabled THEN queue \o buf ELSE queue,
     samples |-> << >>]

\* The outcome of one on_update (nes.rs:227-306).
\*   close, pause, sound : what the polled events ask for (quit, toggle
\*                         pause, toggle sound)
\*   stepped             : samples made by a debugger step inside poll_events
\*   produced            : samples made by clock_frame / clock_seconds
\*   focus               : what check_focus finds
\*   poll_err, draw_err  : poll_events / a texture or draw call fails (`?`)
UpdateOutcome(close, pause, sound, stepped, produced, focus, poll_err, draw_err) ==
    LET closing == should_close \/ close
        paused1 == IF pause THEN ~paused ELSE paused
        sound1 == IF sound THEN ~sound_enabled ELSE sound_enabled
        buf1 == samples \o NewSamples(next_sample, stepped)
        polled == [samples |-> buf1, queue |-> audio_queue, handed |-> << >>,
                   made |-> next_sample + stepped, close |-> closing,
                   paused |-> paused1, sound |-> sound1,
                   lost |-> lost_focus, result |-> "Err"]
    IN  IF poll_err THEN polled                                   \* l.228
        ELSE IF closing THEN [polled EXCEPT !.result = "Ok(false)"]  \* l.229-231
        ELSE LET made == IF paused1 THEN 0 ELSE produced          \* l.255-275
                 buf2 == buf1 \o NewSamples(next_sample + stepped, made)
                 clocked == [polled EXCEPT !.samples = buf2,
                                           !.made = next_sample + stepped + made,
                                           !.lost = ~focus]
             IN  IF focus /\ draw_err THEN clocked                 \* l.276-297
                 ELSE LET a == AudioStep(audio_queue, buf2, sound1)  \* l.299-304
                      IN  [clocked EXCEPT !.samples = a.samples,
                                          !.queue = a.queue,
                                          !.handed = SubSeq(a.queue, Len(audio_queue) + 1, Len(a.queue)),
                                          !.result = "Ok(true)"]

\* nes.rs:32-34
REWIND_START == 5

REWIND_SIZE == 20

REWIND_TIMER == 5

\* The slots the rewind snapshots are kept in.
RewindSlots == REWIND_START .. REWIND_SIZE - 1

\* Most updates that run unpaused.
MaxPaceUpdates == 5

\* The seconds one update is told have elapsed.
Elapsed == {4, 12}

\* config.speed in percent: multiples of 25 %.
Speeds == {25, 50, 100, 150}

\* The configurations followed: every speed with the frame rate locked or
\* not while nothing is saved, and every rewind and save setting at full
\* speed with the frame rate locked.
PaceConfigs ==
    {[rewind |-> FALSE, save |-> FALSE, speed |-> p, unlock |-> u] :
        p \in Speeds, u \in BOOLEAN}
    \union {[rewind |-> r, save |-> v, speed |-> 100, unlock |-> FALSE] :
               r \in BOOLEAN, v \in BOOLEAN}

\* the slot of the next snapshot without the clamp to REWIND_START
RewindSlotMut(save) == save % REWIND_SIZE

\* nes.rs:239-242: the slot the next snapshot is saved to
RewindSlot(save) ==
    LET s == save % REWIND_SIZE IN
    IF s < REWIND_START THEN REWIND_START ELSE s

\* the push without dropping the oldest entry
RewindPushMut(queue, s) == Append(queue, s)

\* nes.rs:246-250: push_back, then pop_front when longer than REWIND_SIZE
RewindPush(queue, s) ==
    LET q == Append(queue, s) IN
    IF Len(q) > REWIND_SIZE THEN Tail(q) ELSE q

\* the timer left where the snapshot found it
RewindRestartMut(timer) == timer

\* nes.rs:243: the timer restarts
RewindRestart(timer) == REWIND_TIMER

\* nes.rs:235-253: the rewind snapshot of one update.  written is the slot
\* save_state wrote, 0 when no snapshot was taken.
RewindStep(enabled, timer, save, queue, slot, secs) ==
    LET idle == [timer |-> timer, save |-> save, queue |-> queue, slot |-> slot,
                 taken |-> FALSE, written |-> 0]
        t1 == timer - secs
    IN  IF ~enabled THEN idle                                       \* l.236
        ELSE IF t1 > 0 THEN [idle EXCEPT !.timer = t1]              \* l.237-238
        ELSE LET s == RewindSlot(save)
                 q == RewindPush(queue, s)
             IN  [timer |-> RewindRestart(t1), save |-> s + 1, queue |-> q,
                  slot |-> Len(q), taken |-> TRUE, written |-> s]

\* the loop of nes.rs:261-264 running while the counter is not negative
RECURSIVE FramesToRunMut(_, _)
FramesToRunMut(counter, frames) ==
    IF counter >= 0 THEN FramesToRunMut(counter - 100, frames + 1)
    ELSE [counter |-> counter, frames |-> frames]

\* nes.rs:261-264: while self.speed_counter > 0 { -= 100; frames_to_run += 1 }
RECURSIVE FramesToRun(_, _)
FramesToRun(counter, frames) ==
    IF counter > 0 THEN FramesToRun(counter - 100, frames + 1)
    ELSE [counter |-> counter, frames |-> frames]

\* nes.rs:272, once for every frame run
TurboClock(turbo, frames) == (turbo + frames) % 6

\* the deck clocked whether paused or not
UpdateClocksMut(p) == TRUE

\* nes.rs:255: if !self.paused
UpdateClocks(p) == ~p

\* clock_seconds(seconds) as on_update calls it (nes.rs:268), the CPU
\* running CPU_CLOCK_RATE = 1 cycle a second: the loop runs while cycles
\* remain and overshoots by `debt` cycles of its last instruction.
ClockSecondsLeaves(remaining, percent, secs, debt) ==
    LET total == remaining + (percent * secs) \div 100 IN
    IF total > 0 THEN 0 - debt ELSE total

\* State::on_update, called by the engine once on_start has returned Ok(true)
\* and while the last on_update returned Ok(true).
\*   secs : the elapsed time handed in
\*   debt : by how many cycles clock_seconds overshoots
on_update(close, pause, sound, stepped, produced, focus, poll_err, draw_err, secs, debt) ==
    /\ UpdateOnly
    /\ started = "Ok(true)"
    /\ update_result \in {"none", "Ok(true)"}
    /\ next_sample + stepped + produced <= MaxSamples
    /\ LET r == UpdateOutcome(close, pause, sound, stepped, produced, focus,
                              poll_err, draw_err)
           reached == ~poll_err /\ ~r.close                         \* l.228-231
           running == reached /\ UpdateClocks(r.paused)             \* l.255
           rw == RewindStep(reached /\ rewind_enabled /\ save_enabled, rewind_timer,
                            rewind_save, rewind_queue, rewind_slot, secs)
           ftr == FramesToRun(speed_counter + speed, 0)             \* l.259-264
           frames == IF running /\ ~unlock_fps THEN ftr.frames ELSE 0
           seconds == running /\ unlock_fps                         \* l.267-268
           left == ClockSecondsLeaves(cycles_remaining, speed, secs, debt)
       IN  /\ running => speed_updates < MaxPaceUpdates
           /\ produced > 0 => (seconds \/ frames > 0)
           /\ debt > 0 => (seconds /\ left < 0)
           /\ samples' = r.samples
           /\ audio_queue' = r.queue
           /\ handed' = r.handed
           /\ next_sample' = r.made
           /\ should_close' = r.close
           /\ paused' = r.paused
           /\ sound_enabled' = r.sound
           /\ lost_focus' = r.lost
           /\ update_result' = r.result
           /\ rewind_timer' = rw.timer
           /\ rewind_save' = rw.save
           /\ rewind_queue' = rw.queue
           /\ rewind_slot' = rw.slot
           /\ snap_taken' = rw.taken
           /\ last_saved' = IF rw.taken THEN rw.written ELSE last_saved
           /\ slot_files' = IF rw.taken THEN slot_files \union {rw.written}
                            ELSE slot_files
           /\ since_snapshot' =
                  LET was == IF snap_taken THEN 0 ELSE since_snapshot IN
                  IF was + secs >= REWIND_TIMER THEN REWIND_TIMER ELSE was + secs
           /\ nes_clock' = IF running THEN nes_clock + secs ELSE nes_clock  \* l.256
           /\ speed_counter' = IF running THEN ftr.counter ELSE speed_counter
           /\ turbo_clock' = TurboClock(turbo_clock, frames)         \* l.270-273
           /\ cycles_remaining' = IF seconds THEN left ELSE cycles_remaining
           /\ update_clocked' = (seconds \/ frames > 0)
           /\ frames_now' = frames
           /\ frames_run' = frames_run + frames
           /\ speed_updates' = IF running THEN speed_updates + 1 ELSE speed_updates
    /\ UNCHANGED <<rewind_enabled, save_enabled, speed, unlock_fps>>

\* Nes::with_config (nes.rs:92-126) with the settings of the configuration
UpdateInit ==
    /\ samples = << >>
    /\ audio_queue = << >>
    /\ handed = << >>
    /\ next_sample = 0
    /\ sound_enabled \in BOOLEAN
    /\ should_close = FALSE
    /\ paused = TRUE
    /\ lost_focus = FALSE
    /\ update_result = "none"
    /\ \E c \in PaceConfigs :
          /\ rewind_enabled = c.rewind
          /\ save_enabled = c.save
          /\ speed = c.speed
          /\ unlock_fps = c.unlock
    /\ rewind_timer = REWIND_TIMER
    /\ rewind_save = 0
    /\ rewind_queue = << >>
    /\ rewind_slot = 0
    /\ speed_counter = 0
    /\ turbo_clock = 0
    /\ nes_clock = 0
    /\ snap_taken = FALSE
    /\ last_saved = 0
    /\ since_snapshot = 0
    /\ update_clocked = FALSE
    /\ frames_now = 0
    /\ frames_run = 0
    /\ speed_updates = 0

\* The default pacing: no rewinding, full speed, the frame rate locked.
DefaultPace ==
    /\ ~rewind_enabled
    /\ ~save_enabled
    /\ speed = 100
    /\ ~unlock_fps

\* The update state of a deck whose host callbacks are not running.
UpdateIdle == UpdateInit /\ sound_enabled = TRUE /\ DefaultPace

---------------------------------------------------------------------------
(* Gamepad input -- src/src/nes/event.rs:378-420, 558-595 *)

\* GamepadSlot: the players a controller can be plugged in for
GamepadSlots == {"One", "Two"}

\* GamepadBtn; "Zapper" stands for the variants the matches leave to `_`
GamepadBtns == {"Left", "Right", "Up", "Down", "A", "B", "TurboA", "TurboB",
                "Select", "Start", "Zapper"}

\* The buttons the events of the model press and release.
PressedBtns == {"Left", "Right", "Up", "Down", "A", "TurboA", "Zapper"}

\* The button pairs an Action::ZeroAxis binding names (a stick axis at rest).
ZeroAxisPairs == {<<"Left", "Right">>, <<"Up", "Down">>}

\* A gamepad with nothing pressed.
GamepadReleased ==
    [left |-> FALSE, right |-> FALSE, up |-> FALSE, down |-> FALSE,
     a |-> FALSE, b |-> FALSE, turbo_a |-> FALSE, turbo_b |-> FALSE,
     select |-> FALSE, start |-> FALSE]

\* event.rs:566-574: a pressed direction releases the opposite one
ClearOpposite(g, concurrent, button, pressed) ==
    IF ~concurrent /\ pressed
    THEN CASE button = "Left" -> [g EXCEPT !.right = ~pressed]
           [] button = "Right" -> [g EXCEPT !.left = ~pressed]
           [] button = "Up" -> [g EXCEPT !.down = ~pressed]
           [] button = "Down" -> [g EXCEPT !.up = ~pressed]
           [] OTHER -> g
    ELSE g

\* event.rs:575-592: the button itself
SetButton(g, button, pressed) ==
    CASE button = "Left" -> [g EXCEPT !.left = pressed]
      [] button = "Right" -> [g EXCEPT !.right = pressed]
      [] button = "Up" -> [g EXCEPT !.up = pressed]
      [] button = "Down" -> [g EXCEPT !.down = pressed]
      [] button = "A" -> [g EXCEPT !.a = pressed]
      [] button = "B" -> [g EXCEPT !.b = pressed]
      [] button = "TurboA" -> [g EXCEPT !.turbo_a = pressed, !.a = pressed]
      [] button = "TurboB" -> [g EXCEPT !.turbo_b = pressed, !.b = pressed]
      [] button = "Select" -> [g EXCEPT !.select = pressed]
      [] button = "Start" -> [g EXCEPT !.start = pressed]
      [] OTHER -> g

\* handle_gamepad_pressed without the release of the opposite direction
GamepadPressedMut(g, concurrent, button, pressed) == SetButton(g, button, pressed)

\* Nes::handle_gamepad_pressed (event.rs:558-595) on the gamepad g
GamepadPressed(g, concurrent, button, pressed) ==
    SetButton(ClearOpposite(g, concurrent, button, pressed), button, pressed)

\* handle_input_action with Action::Gamepad(button) and repeat = false
\* (event.rs:403 pressed, 414 released)
gamepad_event(slot, button, pressed) ==
    /\ PadOnly
    /\ gamepads' = [gamepads EXCEPT
          ![slot] = GamepadPressed(@, concurrent_dpad, button, pressed)]
    /\ pad_cleared' = (ClearOpposite(gamepads[slot], concurrent_dpad, button, pressed)
                         # gamepads[slot])
    /\ UNCHANGED <<concurrent_dpad, dpad_ever>>

\* handle_input_action with Action::ZeroAxis(buttons), pressed = true and
\* repeat = false (event.rs:404-408): both buttons are released in turn
zero_axis(slot, buttons) ==
    /\ PadOnly
    /\ LET g1 == GamepadPressed(gamepads[slot], concurrent_dpad, buttons[1], FALSE)
           g2 == GamepadPressed(g1, concurrent_dpad, buttons[2], FALSE)
       IN  gamepads' = [gamepads EXCEPT ![slot] = g2]
    /\ pad_cleared' = FALSE
    /\ UNCHANGED <<concurrent_dpad, dpad_ever>>

\* The "Concurrent D-Pad" checkbox of the configuration menu (menu.rs:204)
toggle_concurrent_dpad ==
    /\ PadOnly
    /\ concurrent_dpad' = ~concurrent_dpad
    /\ dpad_ever' = (dpad_ever \/ ~concurrent_dpad)
    /\ pad_cleared' = FALSE
    /\ UNCHANGED gamepads

\* Gamepads at start: nothing pressed, the configured D-Pad setting
PadInit ==
    /\ gamepads = [slot \in GamepadSlots |-> GamepadReleased]
    /\ concurrent_dpad \in BOOLEAN
    /\ dpad_ever = concurrent_dpad
    /\ pad_cleared = FALSE

PadIdle == PadInit /\ concurrent_dpad = FALSE

---------------------------------------------------------------------------
(* The host's start callback -- src/src/nes.rs:167-225 *)

\* Most Game Genie codes in the configuration.
MaxCodes == 3

\* The serialized parts of the deck, in the order a save state holds them.
Components == <<"cpu", "ppu", "apu", "mapper", "bus">>

\* Game Genie codes by what parsing looks at: the length and whether every
\* character is of the Genie alphabet.
GenieCodes ==
    {[len |-> 6, legal |-> TRUE], [len |-> 8, legal |-> TRUE],
     [len |-> 5, legal |-> TRUE], [len |-> 6, legal |-> FALSE]}

\* The configured code lists.
CodeLists == UNION {[1 .. n -> GenieCodes] : n \in 0 .. MaxCodes}

\* Bus::add_genie_code: a 6- or 8-letter code of the Genie alphabet becomes
\* active; any other fails to parse and nothing changes.
add_genie_code(active, code) ==
    IF code.len \notin {6, 8} THEN [genie |-> active, err |-> "bad-length"]
    ELSE IF ~code.legal THEN [genie |-> active, err |-> "illegal-character"]
    ELSE [genie |-> active \union {code}, err |-> "none"]

\* the loop of nes.rs:202-206 leaving at the first code that fails
RECURSIVE AddGenieCodesMut(_, _, _, _)
AddGenieCodesMut(codes, i, active, msgs) ==
    IF i > Len(codes) THEN [genie |-> active, messages |-> msgs]
    ELSE LET r == add_genie_code(active, codes[i]) IN
         IF r.err # "none" THEN [genie |-> r.genie, messages |-> Append(msgs, r.err)]
         ELSE AddGenieCodesMut(codes, i + 1, r.genie, msgs)

\* nes.rs:201-206: every configured code is added in turn; a failure only
\* queues its message
RECURSIVE AddGenieCodes(_, _, _, _)
AddGenieCodes(codes, i, active, msgs) ==
    IF i > Len(codes) THEN [genie |-> active, messages |-> msgs]
    ELSE LET r == add_genie_code(active, codes[i]) IN
         AddGenieCodes(codes, i + 1, r.genie,
                       IF r.err # "none" THEN Append(msgs, r.err) ELSE msgs)

\* Save-state files: none on disk, one with a bad magic or an incompatible
\* version, one whose body is corrupt after `good` components, or a whole
\* one; val is the component state the body holds.
SaveFiles ==
    {[kind |-> "none", good |-> 0, val |-> 0],
     [kind |-> "bad-magic", good |-> 0, val |-> 1],
     [kind |-> "incompatible-version", good |-> 0, val |-> 1]}
    \union {[kind |-> "corrupt-body", good |-> k, val |-> v] :
               k \in 0 .. Len(Components) - 1, v \in {1, 2}}
    \union {[kind |-> "ok", good |-> Len(Components), val |-> v] : v \in {1, 2}}

\* The deck with the first n components of the file's body read into it.
Staged(state, file, n) ==
    [c \in DOMAIN state |->
        IF \E i \in 1 .. n : Components[i] = c THEN file.val ELSE state[c]]

\* load_state reading the body straight into the deck
load_state_mut(state, file) ==
    IF file.kind \in {"none", "bad-magic", "incompatible-version"}
    THEN [state |-> state, result |-> file.kind]
    ELSE [state |-> Staged(state, file, file.good), result |-> file.kind]

\* load_state: the header is checked, the body is read into a staged copy
\* and the copy is committed only when all of it was read
load_state(state, file) ==
    IF file.kind \in {"none", "bad-magic", "incompatible-version"}
    THEN [state |-> state, result |-> file.kind]
    ELSE LET staged == Staged(state, file, file.good) IN
         IF file.good < Len(Components)
         THEN [state |-> state, result |-> file.kind]
         ELSE [state |-> staged, result |-> "ok"]

\* The deck before a cartridge is loaded, and after power_on with one.
DeckUnpowered == [c \in {Components[i] : i \in 1 .. Len(Components)} |-> 0]

DeckPoweredOn == [DeckUnpowered EXCEPT !["mapper"] = 3]

\* The save slots found on disk at start-up, the slot of the configuration
\* aside: none, or a user's slot and stale rewind snapshots.
StaleSlots == {{}, {1, REWIND_START, REWIND_SIZE - 1}}

\* the cleanup loop starting from slot 0
RewindCleanupMut(files) == files \ (0 .. REWIND_SIZE - 1)

\* nes.rs:192-199: for slot in REWIND_START..REWIND_SIZE, remove the file
RewindCleanup(files) == files \ RewindSlots

\* State::on_start (nes.rs:167-225).  find_err: find_roms fails;
\* fail: the `?` that returns early, if any.
on_start(find_err, fail) ==
    /\ StartOnly
    /\ started = "new"
    /\ LET msgs1 == IF find_err THEN Append(messages, "find_roms") ELSE messages
           found == IF find_err THEN 0 ELSE roms
       IN  IF fail = "create_textures" \/ (found = 1 /\ fail \in {"load_rom", "power_on"})
           THEN /\ started' = "Err"                                  \* l.171, 178, 179
                /\ messages' = IF fail = "create_textures" THEN messages ELSE msgs1
                /\ deck_state' = IF found = 1 /\ fail = "power_on"
                                 THEN [deck_state EXCEPT !["mapper"] = 3]
                                 ELSE deck_state
                /\ UNCHANGED <<save_file, genie, load_result, before_load, slot_files>>
           ELSE IF found # 1
           THEN /\ started' = "Ok(true)"                             \* l.177
                /\ messages' = msgs1
                /\ UNCHANGED <<save_file, deck_state, genie, load_result, before_load,
                               slot_files>>
           ELSE LET cleared == clear_save /\ save_file.kind # "none"   \* l.181-187
                    msgs2 == IF cleared THEN Append(msgs1, "Cleared slot") ELSE msgs1
                    loaded == IF clear_save                            \* l.189
                              THEN [state |-> DeckPoweredOn, result |-> "not-called"]
                              ELSE load_state(DeckPoweredOn, save_file)
                    msgs3 == IF loaded.result \in {"not-called", "none"} THEN msgs2
                             ELSE Append(msgs2, IF loaded.result = "ok"
                                                THEN "Loaded slot" ELSE loaded.result)
                    codes == AddGenieCodes(genie_codes, 1, genie, msgs3) \* l.201-206
                IN  /\ started' = "Ok(true)"
                    /\ save_file' = IF cleared
                                    THEN [kind |-> "none", good |-> 0, val |-> 0]
                                    ELSE save_file
                    /\ before_load' = DeckPoweredOn
                    /\ load_result' = loaded.result
                    /\ deck_state' = loaded.state
                    /\ slot_files' = RewindCleanup(slot_files)          \* l.192-199
                    /\ genie' = codes.genie
                    /\ messages' = codes.messages
    /\ UNCHANGED <<roms, clear_save, genie_codes>>

\* Nes::with_config, the configuration and the files on disk
StartInit ==
    /\ started = "new"
    /\ roms \in 0 .. 2
    /\ clear_save \in BOOLEAN
    /\ save_file \in SaveFiles
    /\ genie_codes \in CodeLists
    /\ deck_state = DeckUnpowered
    /\ genie = {}
    /\ messages = << >>
    /\ load_result = "not-called"
    /\ before_load = DeckUnpowered
    /\ slot_files \in StaleSlots

StartIdle ==
    /\ StartInit
    /\ roms = 0
    /\ clear_save = FALSE
    /\ save_file.kind = "none"
    /\ genie_codes = << >>
    /\ slot_files = {}

\* The start state once on_start has returned Ok(true) without a ROM.
StartRan ==
    /\ started = "Ok(true)"
    /\ roms = 0
    /\ clear_save = FALSE
    /\ save_file = [kind |-> "none", good |-> 0, val |-> 0]
    /\ genie_codes = << >>
    /\ deck_state = DeckUnpowered
    /\ genie = {}
    /\ messages = << >>
    /\ load_result = "not-called"
    /\ before_load = DeckUnpowered
    /\ slot_files = {}

---------------------------------------------------------------------------
(* The clocked core: ControlDeck::clock, Ppu::clock, set_region, reset *)

\* Dots in one scanline (341).
LineDots == 3

\* Scanlines of a NTSC frame, the pre-render line included (262).
NtscLines == 3

\* Scanlines a PAL or Dendy frame has more than a NTSC one (312 - 262).
PalExtraLines == 2

\* Most CPU cycles counted since the region was set.
MaxCoreCycles == 6

\* Values of the program counter.
PcValues == {0, 1}

\* region_total: the scanlines of one frame
RegionTotal(r) == IF r = "Ntsc" THEN NtscLines ELSE NtscLines + PalExtraLines

\* The last dot of a scanline (340) and the one odd frames skip (339).
LastDot == LineDots - 1

SkippedDot == LineDots - 2

\* The pre-render scanline.
PreRender == 0 - 1

\* Ppu::clock: one dot.  p holds the counters and the flags they depend on.
PpuClock(p, r) ==
    LET d1 == IF p.scanline = PreRender /\ p.odd /\ p.rendering
                 /\ p.dot + 1 = SkippedDot
              THEN p.dot + 2 ELSE p.dot + 1
    IN  IF d1 <= LastDot THEN [p EXCEPT !.dot = d1]
        ELSE IF p.scanline + 1 > RegionTotal(r) - 2
        THEN [p EXCEPT !.dot = 0, !.scanline = PreRender, !.odd = ~p.odd]
        ELSE [p EXCEPT !.dot = 0, !.scanline = p.scanline + 1]

RECURSIVE PpuRun(_, _, _)
PpuRun(p, r, n) == IF n = 0 THEN p ELSE PpuRun(PpuClock(p, r), r, n - 1)

\* the ratio without the fractional accumulator
DotsForCycleMut(r, acc) == [dots |-> 3, acc |-> acc]

\* The dots the PPU runs for one CPU cycle: 3, and on PAL a fourth one
\* every fifth cycle, counted by the accumulator (3.2 dots a cycle).
DotsForCycle(r, acc) ==
    IF r = "Pal"
    THEN IF acc + 1 >= 5 THEN [dots |-> 4, acc |-> acc + 1 - 5]
                         ELSE [dots |-> 3, acc |-> acc + 1]
    ELSE [dots |-> 3, acc |-> acc]

\* c CPU cycles of the deck: for each, the PPU N times and the APU once.
RECURSIVE RunCycles(_, _, _)
RunCycles(st, r, c) ==
    IF c = 0 THEN st
    ELSE LET d == DotsForCycle(r, st.acc) IN
         RunCycles([ppu |-> PpuRun(st.ppu, r, d.dots), acc |-> d.acc,
                    dots |-> st.dots + d.dots, apu |-> st.apu + 1], r, c - 1)

\* a jammed CPU that goes on executing
JamReturnsMut(jam, c) == c

\* Cpu::clock: the cycles the instruction takes, 0 once the CPU is jammed
JamReturns(jam, c) == IF jam THEN 0 ELSE c

\* ControlDeck::clock: the CPU runs one instruction of c cycles that leaves
\* the program counter at next_pc (kil: it is a KIL opcode), then the PPU
\* and the APU run for the cycles it took.
deck_clock(c, kil, next_pc) ==
    /\ CoreOnly
    /\ core_cycles + c <= MaxCoreCycles
    /\ LET n == JamReturns(core_jam, c)
           st == RunCycles([ppu |-> [scanline |-> scanline, dot |-> dot,
                                     odd |-> odd_frame, rendering |-> rendering],
                            acc |-> pal_acc, dots |-> core_dots, apu |-> core_apu],
                           nes_region, n)
       IN  /\ core_ret' = n
           /\ cpu_pc' = IF n = 0 THEN cpu_pc ELSE next_pc
           /\ core_jam' = IF n = 0 THEN core_jam ELSE kil
           /\ core_cycles' = core_cycles + n
           /\ core_dots' = st.dots
           /\ core_apu' = st.apu
           /\ pal_acc' = st.acc
           /\ scanline' = st.ppu.scanline
           /\ dot' = st.ppu.dot
           /\ odd_frame' = st.ppu.odd
    /\ UNCHANGED <<nes_region, rendering>>

\* ControlDeck::set_region: the clock ratio and the scanline count of the
\* new region apply from now on
set_region(r) ==
    /\ CoreOnly
    /\ nes_region' = r
    /\ core_ret' = 0 - 1
    /\ core_cycles' = 0 /\ core_dots' = 0 /\ core_apu' = 0
    /\ UNCHANGED <<scanline, dot, odd_frame, rendering, pal_acc, core_jam, cpu_pc>>

\* CPU accesses to the PPU registers 0x2000-0x2007: a PPUMASK write may
\* switch background rendering; none of them moves the counters
ppu_register(reg, show) ==
    /\ CoreOnly
    /\ rendering' = IF reg = "PPUMASK" THEN show ELSE rendering
    /\ core_ret' = 0 - 1
    /\ UNCHANGED <<nes_region, scanline, dot, odd_frame, pal_acc, core_jam, cpu_pc,
                   core_cycles, core_dots, core_apu>>

\* ControlDeck::reset: the CPU restarts from the reset vector and the PPU
\* counters restart
core_reset ==
    /\ CoreOnly
    /\ scanline' = 0 /\ dot' = 0 /\ odd_frame' = FALSE
    /\ rendering' = FALSE
    /\ pal_acc' = 0
    /\ core_jam' = FALSE
    /\ cpu_pc' = 0
    /\ core_ret' = 0 - 1
    /\ core_cycles' = 0 /\ core_dots' = 0 /\ core_apu' = 0
    /\ UNCHANGED nes_region

\* The core at power-on, in the configured region
CoreInit ==
    /\ nes_region \in Regions
    /\ scanline = 0 /\ dot = 0 /\ odd_frame = FALSE
    /\ rendering = FALSE
    /\ pal_acc = 0
    /\ core_jam = FALSE
    /\ cpu_pc = 0
    /\ core_cycles = 0 /\ core_dots = 0 /\ core_apu = 0
    /\ core_ret = 0 - 1

CoreIdle == CoreInit /\ nes_region = "Ntsc"

---------------------------------------------------------------------------
(* The CPU cycle by cycle: OAM DMA (0x4014) and the interrupt lines *)

\* Bytes of OAM one DMA copies (256).
OamBytes == 2

\* Most cycles of one instruction (7); the shortest takes 2.
MaxCpuCycles == 3

\* Cycles of an interrupt sequence (7).
InterruptCycles == 3

\* What an instruction does when it ends: nothing the model follows, a
\* write to 0x4014, SEI, CLI (or RTI restoring a clear I flag), BRK.
Opcodes == {"plain", "oamdma", "sei", "cli", "brk"}

\* an OAM DMA that takes no alignment cycle
DmaStallMut(odd) == 2 * OamBytes + 1

\* Cycles an OAM DMA stalls the CPU for: one to halt, one more to align
\* when it starts on an odd cycle, then a read and a write for every byte
\* (513 or 514 for 256 bytes).
DmaStall(odd) == 2 * OamBytes + 1 + (IF odd THEN 1 ELSE 0)

\* the IRQ taken before the NMI
BetweenInstructionsMut(nmi, irq, i) ==
    IF irq /\ ~i THEN "IRQ" ELSE IF nmi THEN "NMI" ELSE "fetch"

\* What the CPU does between two instructions: the latched NMI first, then
\* an IRQ whose line is asserted while the I flag is clear, else the next
\* opcode (BRK being one)
BetweenInstructions(nmi, irq, i) ==
    IF nmi THEN "NMI" ELSE IF irq /\ ~i THEN "IRQ" ELSE "fetch"

\* The CPU is between two instructions and not stalled.
AtBoundary == instr_left = 0 /\ dma_left = 0

\* Every CPU cycle flips the cycle parity.
CpuCycle == cpu_odd' = ~cpu_odd

\* The first cycle of the next instruction: the opcode fetch
cpu_fetch(c, op) ==
    /\ CpuOnly
    /\ AtBoundary
    /\ BetweenInstructions(nmi_latch, irq_line, flag_i) = "fetch"
    /\ CpuCycle
    /\ instr_left' = c - 1
    /\ cur_op' = op
    /\ cpu_event' = "fetch"
    /\ UNCHANGED <<dma_left, dma_odd, dma_started, oam_copied, stall_cycles,
                   stall_ppu, stall_apu, nmi_latch, irq_line, flag_i>>

\* The first cycle of an interrupt sequence: the NMI latch is cleared when
\* the NMI is serviced; the sequence sets the I flag when it ends
cpu_interrupt ==
    /\ CpuOnly
    /\ AtBoundary
    /\ BetweenInstructions(nmi_latch, irq_line, flag_i) # "fetch"
    /\ CpuCycle
    /\ LET which == BetweenInstructions(nmi_latch, irq_line, flag_i) IN
          /\ cpu_event' = which
          /\ nmi_latch' = IF which = "NMI" THEN FALSE ELSE nmi_latch
    /\ instr_left' = InterruptCycles - 1
    /\ cur_op' = "sei"
    /\ UNCHANGED <<dma_left, dma_odd, dma_started, oam_copied, stall_cycles,
                   stall_ppu, stall_apu, irq_line, flag_i>>

\* A further cycle of the instruction in progress; its last cycle does
\* what the instruction is for
cpu_exec ==
    /\ CpuOnly
    /\ instr_left > 0 /\ dma_left = 0
    /\ CpuCycle
    /\ instr_left' = instr_left - 1
    /\ cpu_event' = IF instr_left = 1 /\ cur_op = "brk" THEN "BRK" ELSE "exec"
    /\ flag_i' = IF instr_left = 1
                 THEN CASE cur_op \in {"sei", "brk"} -> TRUE
                        [] cur_op = "cli" -> FALSE
                        [] OTHER -> flag_i
                 ELSE flag_i
    /\ IF instr_left = 1 /\ cur_op = "oamdma"
       THEN /\ dma_left' = DmaStall(cpu_odd')
            /\ dma_odd' = cpu_odd'
            /\ dma_started' = TRUE
            /\ oam_copied' = 0
            /\ stall_cycles' = 0 /\ stall_ppu' = 0 /\ stall_apu' = 0
       ELSE UNCHANGED <<dma_left, dma_odd, dma_started, oam_copied, stall_cycles,
                        stall_ppu, stall_apu>>
    /\ UNCHANGED <<cur_op, nmi_latch, irq_line>>

\* A cycle of the OAM DMA: the CPU is halted, the PPU runs its 3 dots and
\* the APU its clock; every second cycle of the transfer writes a byte
cpu_stall ==
    /\ CpuOnly
    /\ dma_left > 0
    /\ CpuCycle
    /\ dma_left' = dma_left - 1
    /\ oam_copied' = IF dma_left <= 2 * OamBytes /\ dma_left % 2 = 1
                     THEN oam_copied + 1 ELSE oam_copied
    /\ stall_cycles' = stall_cycles + 1
    /\ stall_ppu' = stall_ppu + 3
    /\ stall_apu' = stall_apu + 1
    /\ cpu_event' = "stall"
    /\ UNCHANGED <<instr_left, cur_op, dma_odd, dma_started, nmi_latch, irq_line,
                   flag_i>>

\* The PPU raises the NMI edge (scanline 241, dot 1): it is latched
ppu_nmi ==
    /\ CpuOnly
    /\ ~nmi_latch
    /\ nmi_latch' = TRUE
    /\ UNCHANGED <<cpu_odd, instr_left, cur_op, dma_left, dma_odd, dma_started,
                   oam_copied, stall_cycles, stall_ppu, stall_apu, irq_line,
                   flag_i, cpu_event>>

\* A mapper or the APU asserts or releases the IRQ line
set_irq(level) ==
    /\ CpuOnly
    /\ irq_line # level
    /\ irq_line' = level
    /\ UNCHANGED <<cpu_odd, instr_left, cur_op, dma_left, dma_odd, dma_started,
                   oam_copied, stall_cycles, stall_ppu, stall_apu, nmi_latch,
                   flag_i, cpu_event>>

\* The CPU after power-on or reset: between instructions, I set
CpuInit ==
    /\ cpu_odd = FALSE
    /\ instr_left = 0
    /\ cur_op = "plain"
    /\ dma_left = 0
    /\ dma_odd = FALSE
    /\ dma_started = FALSE
    /\ oam_copied = 0
    /\ stall_cycles = 0 /\ stall_ppu = 0 /\ stall_apu = 0
    /\ nmi_latch = FALSE
    /\ irq_line = FALSE
    /\ flag_i = TRUE
    /\ cpu_event = "none"

---------------------------------------------------------------------------
(* Emulator-state actions -- src/src/nes/event.rs:423-462 *)

\* Mode, the menu and player of InMenu left out
Modes == {"Playing", "Paused", "InMenu"}

\* NesState
NesStates == {"ToggleMenu", "Quit", "TogglePause", "Reset", "PowerCycle"}

\* Work RAM addresses followed: the first and the last byte of the 2 KiB.
WramAddrs == {0, 2047}

\* Stack pointers the program sets (TXS).
SpValues == {0, 2, 128}

\* The stack pointer after power-on.
PowerOnSp == 253

\* Reset and PowerCycle keeping the stored error
NesStateErrorMut(state, err) == err

\* event.rs:449, 455: Reset and PowerCycle clear the stored error
NesStateError(state, err) ==
    IF state \in {"Reset", "PowerCycle"} THEN None ELSE err

\* event.rs:425-447: the mode after ToggleMenu / TogglePause
NesStateMode(state, m, running) ==
    CASE state = "ToggleMenu" ->
           IF m = "InMenu" THEN (IF running THEN "Playing" ELSE m) ELSE "InMenu"
      [] state = "TogglePause" ->
           CASE m \in {"Playing", "Recording", "Replaying"} -> "Paused"
             [] m \in {"Paused", "PausedBg"} -> "Playing"
             [] m = "InMenu" /\ running -> "Playing"
             [] OTHER -> m
      [] OTHER -> m

\* ControlDeck::reset on the CPU: the stack pointer goes down by 3 (8 bit)
ResetSp(sp) == (sp + 256 - 3) % 256

\* handle_nes_state (event.rs:423-462), no debugger attached
nes_state(state) ==
    /\ UiOnly
    /\ engine = "run"
    /\ ui_mode' = NesStateMode(state, ui_mode, deck_running)
    /\ ui_error' = NesStateError(state, ui_error)
    /\ engine' = IF state = "Quit" THEN "quit" ELSE engine
    /\ ui_message' = CASE state = "Reset" -> "Reset"
                        [] state = "PowerCycle" -> "Power Cycled"
                        [] OTHER -> ui_message
    /\ cpu_sp' = CASE state = "Reset" -> ResetSp(cpu_sp)
                    [] state = "PowerCycle" -> PowerOnSp
                    [] OTHER -> cpu_sp
    /\ cpu_i' = IF state \in {"Reset", "PowerCycle"} THEN TRUE ELSE cpu_i
    /\ ppu_w' = IF state \in {"Reset", "PowerCycle"} THEN FALSE ELSE ppu_w
    /\ wram' = IF state = "PowerCycle" THEN [a \in WramAddrs |-> 0] ELSE wram
    /\ UNCHANGED deck_running

\* The program running on the deck: a store to work RAM, TXS, CLI / SEI, a
\* write to PPUSCROLL or PPUADDR
cpu_program(what, addr, val, sp) ==
    /\ UiOnly
    /\ engine = "run" /\ deck_running /\ ui_mode = "Playing"
    /\ wram' = IF what = "store" THEN [wram EXCEPT ![addr] = val] ELSE wram
    /\ cpu_sp' = IF what = "txs" THEN sp ELSE cpu_sp
    /\ cpu_i' = IF what = "cli" THEN FALSE ELSE cpu_i
    /\ ppu_w' = IF what = "ppuaddr" THEN ~ppu_w ELSE ppu_w
    /\ UNCHANGED <<ui_mode, ui_error, ui_message, engine, deck_running>>

\* menu.rs:454: a path that cannot be read stores an error
ui_read_failed ==
    /\ UiOnly
    /\ engine = "run" /\ ui_mode = "InMenu"
    /\ ui_error' = Some("Failed to read")
    /\ UNCHANGED <<ui_mode, ui_message, engine, deck_running, cpu_sp, cpu_i, ppu_w,
                   wram>>

\* The UI at start, with or without a running deck
UiInit ==
    /\ ui_mode = "InMenu"
    /\ ui_error = None
    /\ ui_message = "none"
    /\ engine = "run"
    /\ deck_running \in BOOLEAN
    /\ cpu_sp = PowerOnSp
    /\ cpu_i = TRUE
    /\ ppu_w = FALSE
    /\ wram = [a \in WramAddrs |-> 0]

UiIdle == UiInit /\ deck_running = FALSE

---------------------------------------------------------------------------
(* Key events -- src/src/nes/event.rs:255-282, 378-420 *)

\* The slots handle_key_event looks the key up under, in its order
\* (event.rs:261-266).
KeySlots == <<"One", "Two", "Three", "Four">>

KeySlotSet == {KeySlots[i] : i \in 1 .. Len(KeySlots)}

\* No binding of the key under a slot.
NoAction == [kind |-> "none", arg |-> "none"]

\* Action (event.rs:139-148), the variants and arguments followed.
KeyActions ==
    {[kind |-> "Nes", arg |-> "TogglePause"],
     [kind |-> "Menu", arg |-> "Config"],
     [kind |-> "Feature", arg |-> "Rewind"],
     [kind |-> "Setting", arg |-> "FastForward"],
     [kind |-> "Setting", arg |-> "ToggleFullscreen"],
     [kind |-> "Gamepad", arg |-> "A"],
     [kind |-> "Gamepad", arg |-> "Left"],
     [kind |-> "ZeroAxis", arg |-> "LeftRight"],
     [kind |-> "Debug", arg |-> "StepInto"]}

\* The slots one action is bound under, none of them for an unbound key.
SlotSets == {{}, {"One"}, {"Two"}, {"One", "Two"}, {"Three", "Four"}, KeySlotSet}

\* The bindings of the key: one action under some slots, or one action
\* under slot One and one under slot Two.
KeyBindings ==
    {[s \in KeySlotSet |-> IF s \in S THEN a ELSE NoAction] :
        a \in KeyActions, S \in SlotSets}
    \union {[s \in KeySlotSet |-> IF s = "One" THEN a
                                  ELSE IF s = "Two" THEN b ELSE NoAction] :
               a \in KeyActions, b \in KeyActions}

\* handle_input_action treating a repeated event like a first one
InputBranchMut(pressed, repeat) == IF pressed THEN "pressed" ELSE "released"

\* event.rs:392-418: if repeat .. else if pressed .. else ..
InputBranch(pressed, repeat) ==
    IF repeat THEN "repeat" ELSE IF pressed THEN "pressed" ELSE "released"

\* handle_debug (event.rs:598-664) for StepInto
HandleDebug(h, arg) ==
    IF arg = "StepInto" /\ debugging
    THEN [h EXCEPT !.mode = IF @ = "Playing" THEN "Paused" ELSE @,
                   !.stepped = TRUE]
    ELSE h

\* handle_setting (event.rs:511-556); fail: the engine call fails
HandleSetting(h, arg, fail) ==
    CASE arg = "FastForward" -> [h |-> [h EXCEPT !.speed = 200], result |-> "Ok(false)"]
      [] arg = "ToggleFullscreen" ->
           [h |-> [h EXCEPT !.fullscreen = ~@, !.erred = @ \/ fail],     \* l.518-519
            result |-> IF fail THEN "Err" ELSE "Ok(false)"]
      [] OTHER -> [h |-> h, result |-> "Ok(false)"]

\* Nes::handle_input_action (event.rs:378-420) on the host state h; the
\* result is Ok(false), the Err of a `?`, or the panic of todo!()
InputAction(h, slot, action, pressed, repeat, fail) ==
    LET branch == InputBranch(pressed, repeat)
        ran == [h EXCEPT !.ran = Append(@, slot)]
        ok(x) == [h |-> x, result |-> "Ok(false)"]
    IN  CASE branch = "repeat" ->                                   \* l.392-395
               IF action.kind = "Debug" THEN ok(HandleDebug(ran, action.arg)) ELSE ok(h)
          [] branch = "pressed" ->                                  \* l.396-410
               CASE action.kind = "Nes" ->
                      ok([ran EXCEPT !.mode = NesStateMode(action.arg, @, deck_running)])
                 [] action.kind = "Menu" -> ok([ran EXCEPT !.mode = "InMenu"])
                 [] action.kind = "Feature" -> ok(ran)
                 [] action.kind = "Setting" -> HandleSetting(ran, action.arg, fail)
                 [] action.kind = "Gamepad" ->
                      ok([ran EXCEPT !.pads[slot] =
                              GamepadPressed(@, concurrent_dpad, action.arg, TRUE)])
                 [] action.kind = "ZeroAxis" ->
                      ok([ran EXCEPT !.pads[slot] =
                              GamepadPressed(
                                  GamepadPressed(@, concurrent_dpad, "Left", FALSE),
                                  concurrent_dpad, "Right", FALSE)])
                 [] action.kind = "Debug" -> ok(HandleDebug(ran, action.arg))
                 [] OTHER -> ok(h)
          [] OTHER ->                                               \* l.411-417
               CASE action.kind = "Feature" /\ action.arg = "Rewind" /\ ~rewinding ->
                      [h |-> ran, result |-> "panic"]
                 [] action.kind = "Setting" /\ action.arg = "FastForward" ->
                      ok([ran EXCEPT !.speed = 100])
                 [] action.kind = "Gamepad" ->
                      ok([ran EXCEPT !.pads[slot] =
                              GamepadPressed(@, concurrent_dpad, action.arg, FALSE)])
                 [] OTHER -> ok(h)

\* Nes::handle_key_event (event.rs:255-282) from slot KeySlots[i] on
RECURSIVE KeyEvent(_, _, _, _, _)
KeyEvent(h, i, pressed, repeat, fail) ==
    IF i > Len(KeySlots) THEN [h |-> h, result |-> "Ok(false)"]      \* l.280
    ELSE LET slot == KeySlots[i]
             action == key_bindings[slot]
         IN  IF action = NoAction                                    \* l.272
             THEN KeyEvent(h, i + 1, pressed, repeat, fail)
             ELSE LET r == InputAction(h, slot, action, pressed, repeat, fail) IN
                  IF r.result = "panic" THEN r
                  ELSE IF r.result = "Ok(true)" THEN r               \* l.268, 277
                  ELSE KeyEvent(r.h, i + 1, pressed, repeat, fail)

\* The host state an input event works on.
HostState ==
    [pads |-> gamepads, mode |-> ui_mode, speed |-> speed, fullscreen |-> fullscreen,
     stepped |-> FALSE, ran |-> << >>, erred |-> FALSE]

\* The host state and the result r an input handler leaves.
InputHandled(r, source, pressed, repeat) ==
    /\ gamepads' = r.h.pads
    /\ ui_mode' = r.h.mode
    /\ speed' = r.h.speed
    /\ fullscreen' = r.h.fullscreen
    /\ key_stepped' = r.h.stepped
    /\ key_ran' = r.h.ran
    /\ key_erred' = r.h.erred
    /\ key_result' = r.result
    /\ last_key' = [pressed |-> pressed, repeat |-> repeat]
    /\ last_source' = source
    /\ UNCHANGED <<key_bindings, debugging, rewinding>>

\* One event of the key reaching handle_key_event
handle_key_event(pressed, repeat, fail) ==
    /\ KeyOnly
    /\ engine = "run" /\ key_result # "panic"
    /\ InputHandled(KeyEvent(HostState, 1, pressed, repeat, fail), "key", pressed, repeat)

\* The slot get_controller_slot finds for a controller (event.rs:367-376),
\* "none" for a controller of no player.
ControllerSlots == KeySlotSet \union {"none"}

\* event.rs:324-334, 352-361: the action bound under the controller's slot,
\* and its result handed back as it is
ControllerInput(slot, pressed, fail) ==
    IF slot = "none" \/ key_bindings[slot] = NoAction
    THEN [h |-> HostState, result |-> "Ok(false)"]
    ELSE InputAction(HostState, slot, key_bindings[slot], pressed, FALSE, fail)

\* Nes::handle_controller_event (event.rs:317-335) for the button
handle_controller_event(slot, pressed, fail) ==
    /\ KeyOnly
    /\ engine = "run" /\ key_result # "panic"
    /\ InputHandled(ControllerInput(slot, pressed, fail), "button", pressed, FALSE)

\* Nes::handle_controller_axis (event.rs:337-363) for one axis direction
handle_controller_axis(slot, fail) ==
    /\ KeyOnly
    /\ engine = "run" /\ key_result # "panic"
    /\ InputHandled(ControllerInput(slot, TRUE, fail), "axis", TRUE, FALSE)

\* The configuration's bindings, with or without a debugger attached
KeyInit ==
    /\ key_bindings \in KeyBindings
    /\ fullscreen = FALSE
    /\ debugging \in BOOLEAN
    /\ rewinding = FALSE
    /\ last_key = [pressed |-> FALSE, repeat |-> FALSE]
    /\ key_ran = << >>
    /\ key_stepped = FALSE
    /\ key_result = "none"
    /\ key_erred = FALSE
    /\ last_source = "none"

\* The key unbound.
KeyIdle ==
    /\ KeyInit
    /\ key_bindings = [s \in KeySlotSet |-> NoAction]
    /\ debugging = FALSE

---------------------------------------------------------------------------
(* The debugger steps -- src/src/nes/event.rs:598-664 *)

\* Slots of the CPU stack, one return address each (128).
StackSlots == 2

\* One instruction: what it does and the address it names.
Instr(op, to) == [op |-> op, to |-> to]

\* A subroutine at 3 that returns, called from 0.
ProgReturns ==
    <<Instr("JSR", 3), Instr("NOP", 0), Instr("JMP", 0), Instr("NOP", 0),
      Instr("RTS", 0)>>

\* The subroutine jams the CPU.
ProgJams ==
    <<Instr("JSR", 3), Instr("NOP", 0), Instr("JMP", 0), Instr("KIL", 0),
      Instr("RTS", 0)>>

\* The subroutine spins.
ProgSpins ==
    <<Instr("JSR", 3), Instr("NOP", 0), Instr("JMP", 0), Instr("JMP", 3),
      Instr("RTS", 0)>>

\* The subroutine drops its return address and jumps back past the call.
ProgDrops ==
    <<Instr("JSR", 3), Instr("NOP", 0), Instr("JMP", 0), Instr("DROP", 0),
      Instr("JMP", 2)>>

\* The subroutine ends in RTI, which returns to the pushed address itself.
ProgRti ==
    <<Instr("JSR", 3), Instr("NOP", 0), Instr("JMP", 0), Instr("NOP", 0),
      Instr("RTI", 0)>>

Programs == {ProgReturns, ProgJams, ProgSpins, ProgDrops, ProgRti}

\* The addresses of a program; the address after the last one is 0.
NextAddr(prog, a) == (a + 1) % Len(prog)

\* The CPU registers the steps depend on.
StepCpu == [pc |-> step_pc, stack |-> step_stack, sp |-> step_sp, jam |-> step_jam]

\* control_deck.next_instr(): the instruction at the program counter
next_instr(c) == step_prog[c.pc + 1]

\* control_deck.stack_addr(): the address on top of the stack
stack_addr(c) == c.stack[(c.sp + 1) % StackSlots]

\* control_deck.clock(): one instruction; nothing once the CPU is jammed.
\* JSR pushes the address before the one it returns to, RTS adds the 1.
CpuClock(c) ==
    LET i == next_instr(c)
        up == (c.sp + 1) % StackSlots
    IN  IF c.jam THEN c
        ELSE CASE i.op = "NOP" -> [c EXCEPT !.pc = NextAddr(step_prog, c.pc)]
               [] i.op = "JMP" -> [c EXCEPT !.pc = i.to]
               [] i.op = "JSR" ->
                    [c EXCEPT !.stack[c.sp] = c.pc,
                              !.sp = (c.sp + StackSlots - 1) % StackSlots,
                              !.pc = i.to]
               [] i.op = "RTS" ->
                    [c EXCEPT !.sp = up, !.pc = NextAddr(step_prog, c.stack[up])]
               [] i.op = "RTI" -> [c EXCEPT !.sp = up, !.pc = c.stack[up]]
               [] i.op = "DROP" ->
                    [c EXCEPT !.sp = up, !.pc = NextAddr(step_prog, c.pc)]
               [] i.op = "KIL" -> [c EXCEPT !.jam = TRUE]

\* The CPU registers c are the registers after the step.
CpuBecomes(c) ==
    /\ step_pc' = c.pc
    /\ step_stack' = c.stack
    /\ step_sp' = c.sp
    /\ step_jam' = c.jam

\* event.rs:610-612, 617-619: a step pauses a playing emulation
StepPauses(m) == IF m = "Playing" THEN "Paused" ELSE m

\* Nes::handle_debug (event.rs:598-664) up to the loop of StepOver or
\* StepOut, for the actions that clock the CPU
handle_debug(action) ==
    /\ StepOnly
    /\ step_at = "idle" /\ engine = "run"
    /\ step_last' = action
    /\ UNCHANGED step_prog
    /\ CASE ~debugging ->                                            \* l.663
              UNCHANGED <<ui_mode, step_at, step_pc, step_stack, step_sp, step_jam,
                          rti_addr>>
         [] debugging /\ action = "StepInto" ->                      \* l.609-614
              /\ ui_mode' = StepPauses(ui_mode)
              /\ CpuBecomes(CpuClock(StepCpu))
              /\ UNCHANGED <<step_at, rti_addr>>
         [] debugging /\ action = "StepOver" ->                      \* l.615-629
              /\ ui_mode' = StepPauses(ui_mode)
              /\ CpuBecomes(CpuClock(StepCpu))
              /\ IF next_instr(StepCpu).op = "JSR"
                 THEN /\ rti_addr' = NextAddr(step_prog, stack_addr(CpuClock(StepCpu)))
                      /\ step_at' = "step_over"
                 ELSE UNCHANGED <<step_at, rti_addr>>
         [] debugging /\ action = "StepOut" ->                       \* l.630-631
              /\ step_at' = "step_out"
              /\ UNCHANGED <<ui_mode, step_pc, step_stack, step_sp, step_jam, rti_addr>>

\* event.rs:624-626: while self.control_deck.pc() != rti_addr { clock() }
step_over_loop ==
    /\ StepOnly
    /\ step_at = "step_over"
    /\ IF step_pc # rti_addr
       THEN CpuBecomes(CpuClock(StepCpu)) /\ UNCHANGED step_at
       ELSE step_at' = "idle" /\ UNCHANGED <<step_pc, step_stack, step_sp, step_jam>>
    /\ UNCHANGED <<ui_mode, step_prog, rti_addr, step_last>>

\* event.rs:632-636: while the next instruction is neither RTS nor RTI
\* { clock() }, then one clock() more
step_out_loop ==
    /\ StepOnly
    /\ step_at = "step_out"
    /\ CpuBecomes(CpuClock(StepCpu))
    /\ step_at' = IF next_instr(StepCpu).op \in {"RTS", "RTI"} THEN "idle" ELSE step_at
    /\ UNCHANGED <<ui_mode, step_prog, rti_addr, step_last>>

\* The loop of a debugger step that is under way.
StepLoop == step_over_loop \/ step_out_loop

\* A program in memory and the CPU anywhere in it, the stack empty
StepInit ==
    /\ step_at = "idle"
    /\ step_prog \in Programs
    /\ step_pc \in 0 .. Len(step_prog) - 1
    /\ step_stack = [k \in 0 .. StackSlots - 1 |-> 0]
    /\ step_sp = StackSlots - 1
    /\ step_jam = FALSE
    /\ rti_addr = 0
    /\ step_last = "none"

StepIdle == StepInit /\ step_prog = ProgReturns /\ step_pc = 0

---------------------------------------------------------------------------
(* The zapper and the mouse -- src/src/nes/event.rs:284-315 *)

\* Most calls of zapper.trigger() counted.
MaxTriggers == 2

\* Mouse buttons and positions in the window, in window pixels.
MouseButtons == {"Left", "Right"}

MousePoints == {[x |-> 0, y |-> 0], [x |-> 8, y |-> 2], [x |-> 17, y |-> 5]}

\* config.scale as i32
Scales == {1, 2}

\* The UI modes the handlers tell apart.
MouseModes == {"Playing", "Paused", "InMenu"}

\* a trigger that fires in every mode
TriggerFiresMut(m, btn, clicked, view, focus) ==
    clicked /\ btn = "Left" /\ view /\ focus

\* event.rs:292-294: the conditions under which the trigger is pulled
TriggerFires(m, btn, clicked, view, focus) ==
    m = "Playing" /\ clicked /\ btn = "Left" /\ view /\ focus

\* event.rs:304-306: the conditions under which the zapper is moved
ZapperMoves(m, view, focus) == m = "Playing" /\ view /\ focus

\* event.rs:308-310: the window position in PPU pixels, x scaled by 7/8
ZapperPos(pos, sc) == [x |-> ((pos.x \div sc) * 7) \div 8, y |-> pos.y \div sc]

\* Nes::handle_mouse_event (event.rs:284-299); focus: the emulation window
\* is the focused one
handle_mouse_event(btn, clicked, focus) ==
    /\ MouseOnly
    /\ engine = "run"
    /\ LET fires == TriggerFires(ui_mode, btn, clicked, emulation, focus) IN
       /\ fires => trigger_calls < MaxTriggers
       /\ trigger_calls' = IF fires THEN trigger_calls + 1 ELSE trigger_calls
    /\ last_mouse' = [kind |-> "button", btn |-> btn, clicked |-> clicked,
                      focus |-> focus, seq |-> ~last_mouse.seq]
    /\ mouse_mode' = ui_mode
    /\ mouse_result' = "Ok(false)"
    /\ UNCHANGED <<emulation, scale, zapper_pos>>

\* Nes::handle_mouse_motion (event.rs:301-315)
handle_mouse_motion(pos, focus) ==
    /\ MouseOnly
    /\ engine = "run"
    /\ zapper_pos' = IF ZapperMoves(ui_mode, emulation, focus)
                     THEN ZapperPos(pos, scale) ELSE zapper_pos
    /\ last_mouse' = [kind |-> "motion", btn |-> "none", clicked |-> FALSE,
                      focus |-> focus, seq |-> ~last_mouse.seq]
    /\ mouse_mode' = ui_mode
    /\ mouse_result' = "Ok(false)"
    /\ UNCHANGED <<emulation, scale, trigger_calls>>

\* The zapper at rest, with or without an emulation window
ZapInit ==
    /\ emulation \in BOOLEAN
    /\ scale \in Scales
    /\ zapper_pos = [x |-> 0, y |-> 0]
    /\ trigger_calls = 0
    /\ last_mouse = [kind |-> "none", btn |-> "none", clicked |-> FALSE,
                     focus |-> FALSE, seq |-> FALSE]
    /\ mouse_mode = "none"
    /\ mouse_result = "none"

ZapIdle == ZapInit /\ emulation = FALSE /\ scale = 1

\* The host components of a deck that is only being clocked.
HostIdle ==
    UpdateIdle /\ PadIdle /\ StartIdle /\ CoreIdle /\ CpuInit /\ UiIdle /\ KeyIdle
    /\ StepIdle /\ ZapIdle

---------------------------------------------------------------------------
(* Specifications *)

InitFrame ==
    FrameInit /\ DeckInit /\ mapper = Mapper_none /\ call = CallNone /\ HostIdle

NextFrame ==
    \/ increment
    \/ swap_buffers
    \/ \E x \in PixelXs, y \in PixelYs, color \in Colors : put_pixel(x, y, color)
    \/ decode_buffer
    \/ apply_ntsc_filter
    \/ reset

SpecFrame == InitFrame /\ [][NextFrame]_vars

InitMapper == FrameInit /\ DeckInit /\ MapperInit /\ HostIdle

NextMapper ==
    \/ \E addr \in Addrs : call_map_read(addr)
    \/ \E addr \in Addrs : call_map_peek(addr)
    \/ \E addr \in Addrs, val \in Vals : call_map_write(addr, val)
    \/ \E addr \in Addrs, val \in Vals, m \in Mirrorings : cart_set_mirroring(addr, val, m)
    \/ call_irq_pending
    \/ call_mirroring
    \/ \E addr \in Addrs : call_use_ciram(addr)
    \/ \E addr \in Addrs : call_ppu_addr(addr)
    \/ \E addr \in Addrs : call_ppu_read(addr)
    \/ \E addr \in Addrs, val \in Vals : call_ppu_write(addr, val)
    \/ \E region \in Regions : call_set_region(region)

SpecMapper == InitMapper /\ [][NextMapper]_vars

\* The deck of Nes::new(): no cartridge, the mapper is Mapper::none()
InitDeck ==
    FrameInit /\ DeckInit /\ mapper = Mapper_none /\ call = CallNone /\ HostIdle

InstrCycles == 1 .. MaxInstrCycles

DeckLoop ==
    \/ \E c \in InstrCycles, brk \in BOOLEAN, kil \in BOOLEAN, addr \in BusAddrs, data \in Vals :
          clock_frame_loop(c, brk, kil, addr, data)
    \/ clock_frame_return
    \/ \E c \in InstrCycles, brk \in BOOLEAN, kil \in BOOLEAN, addr \in BusAddrs, data \in Vals :
          clock_seconds_loop(c, brk, kil, addr, data)
    \/ clock_seconds_return

DeckHost ==
    \/ \E data \in Vals : power_on(data)
    \/ \E c \in InstrCycles, brk \in BOOLEAN, kil \in BOOLEAN, addr \in BusAddrs, data \in Vals :
          host_clock(c, brk, kil, addr, data)
    \/ clock_frame_call
    \/ \E cycles \in 1 .. MaxSecondsCycles : clock_seconds_call(cycles)

NextDeck == DeckHost \/ DeckLoop

SpecDeck == InitDeck /\ [][NextDeck]_vars

\* The host calling clock_seconds again and again, for short and long times
NextSeconds ==
    \/ \E cycles \in (1 .. MaxSecondsCycles) \union {LongCycles} :
          clock_seconds_call(cycles)
    \/ \E c \in InstrCycles, brk \in BOOLEAN, kil \in BOOLEAN, addr \in BusAddrs, data \in Vals :
          clock_seconds_loop(c, brk, kil, addr, data)
    \/ clock_seconds_return

SpecSeconds == InitDeck /\ [][NextSeconds]_vars

\* The engine calling on_update on a deck without a cartridge
InitUpdate ==
    FrameInit /\ DeckInit /\ mapper = Mapper_none /\ call = CallNone /\ UpdateInit
    /\ DefaultPace /\ PadIdle /\ StartRan /\ CoreIdle /\ CpuInit /\ UiIdle /\ KeyIdle /\ StepIdle /\ ZapIdle

\* The deck clocked instruction by instruction, in any region
InitCore ==
    FrameInit /\ DeckInit /\ mapper = Mapper_none /\ call = CallNone /\ UpdateIdle
    /\ PadIdle /\ StartIdle /\ CoreInit /\ CpuInit /\ UiIdle /\ KeyIdle /\ StepIdle /\ ZapIdle

NextCore ==
    \/ \E c \in InstrCycles, kil \in BOOLEAN, next_pc \in PcValues :
          deck_clock(c, kil, next_pc)
    \/ \E r \in Regions : set_region(r)
    \/ \E reg \in {"PPUMASK", "PPUSTATUS"}, show \in BOOLEAN : ppu_register(reg, show)
    \/ core_reset

SpecCore == InitCore /\ [][NextCore]_vars

\* The CPU run cycle by cycle, with the interrupt lines moving
InitCpu ==
    FrameInit /\ DeckInit /\ mapper = Mapper_none /\ call = CallNone /\ UpdateIdle
    /\ PadIdle /\ StartIdle /\ CoreIdle /\ CpuInit /\ UiIdle /\ KeyIdle /\ StepIdle /\ ZapIdle

NextCpu ==
    \/ \E c \in 2 .. MaxCpuCycles, op \in Opcodes : cpu_fetch(c, op)
    \/ cpu_interrupt
    \/ cpu_exec
    \/ cpu_stall
    \/ ppu_nmi
    \/ \E level \in BOOLEAN : set_irq(level)

SpecCpu == InitCpu /\ [][NextCpu]_vars

\* Emulator-state actions arriving while a program runs on the deck
InitUi ==
    FrameInit /\ DeckInit /\ mapper = Mapper_none /\ call = CallNone /\ UpdateIdle
    /\ PadIdle /\ StartIdle /\ CoreIdle /\ CpuInit /\ UiInit /\ KeyIdle /\ StepIdle /\ ZapIdle

NextUi ==
    \/ \E state \in NesStates : nes_state(state)
    \/ \E what \in {"store", "txs", "cli", "ppuaddr"}, addr \in WramAddrs,
          val \in {0, 255}, sp \in SpValues : cpu_program(what, addr, val, sp)
    \/ ui_read_failed

SpecUi == InitUi /\ [][NextUi]_vars

\* The engine calling on_start once
InitStart ==
    FrameInit /\ DeckInit /\ mapper = Mapper_none /\ call = CallNone /\ UpdateIdle
    /\ PadIdle /\ StartInit /\ CoreIdle /\ CpuInit /\ UiIdle /\ KeyIdle /\ StepIdle /\ ZapIdle

NextStart ==
    \E find_err \in BOOLEAN, fail \in {"none", "create_textures", "load_rom", "power_on"} :
        on_start(find_err, fail)

SpecStart == InitStart /\ [][NextStart]_vars

\* Key, controller and axis events reaching the gamepads
InitPad ==
    FrameInit /\ DeckInit /\ mapper = Mapper_none /\ call = CallNone /\ UpdateIdle
    /\ PadInit /\ StartIdle /\ CoreIdle /\ CpuInit /\ UiIdle /\ KeyIdle /\ StepIdle /\ ZapIdle

NextPad ==
    \/ \E slot \in GamepadSlots, button \in PressedBtns, pressed \in BOOLEAN :
          gamepad_event(slot, button, pressed)
    \/ \E slot \in GamepadSlots, buttons \in ZeroAxisPairs : zero_axis(slot, buttons)
    \/ toggle_concurrent_dpad

SpecPad == InitPad /\ [][NextPad]_vars

NextUpdate ==
    \E close \in BOOLEAN, pause \in BOOLEAN, sound \in BOOLEAN,
       stepped \in 0 .. 1, produced \in 0 .. MaxProduced, focus \in BOOLEAN,
       poll_err \in BOOLEAN, draw_err \in BOOLEAN :
        on_update(close, pause, sound, stepped, produced, focus, poll_err, draw_err, 4, 0)

SpecUpdate == InitUpdate /\ [][NextUpdate]_vars

\* The engine calling on_start and then on_update, the sound off and the
\* window focused, under every pacing and rewind setting
InitPace ==
    FrameInit /\ DeckInit /\ mapper = Mapper_none /\ call = CallNone /\ UpdateInit
    /\ sound_enabled = FALSE /\ PadIdle /\ CoreIdle /\ CpuInit /\ UiIdle
    /\ StartInit /\ roms = 1 /\ clear_save = FALSE /\ save_file.kind = "none"
    /\ genie_codes = << >> /\ slot_files # {} /\ KeyIdle /\ StepIdle /\ ZapIdle

NextPace ==
    \/ \E fail \in {"none", "create_textures"} : on_start(FALSE, fail)
    \/ \E close \in BOOLEAN, pause \in BOOLEAN, poll_err \in BOOLEAN,
          draw_err \in BOOLEAN, secs \in Elapsed, debt \in 0 .. MaxInstrCycles - 1 :
          \* a debugger step only in a poll that also asks to quit
          \E stepped \in (IF close THEN 0 .. 1 ELSE {0}) :
             on_update(close, pause, FALSE, stepped, 0, TRUE, poll_err, draw_err,
                       secs, debt)

SpecPace == InitPace /\ [][NextPace]_vars

\* Events of one key, pressed, released and repeated, while the deck runs
InitKey ==
    FrameInit /\ DeckInit /\ mapper = Mapper_none /\ call = CallNone /\ UpdateIdle
    /\ StartIdle /\ CoreIdle /\ CpuInit /\ UiInit /\ deck_running = TRUE /\ KeyInit
    /\ StepIdle /\ ZapIdle
    /\ gamepads = [slot \in KeySlotSet |-> GamepadReleased]
    /\ concurrent_dpad = FALSE /\ dpad_ever = FALSE /\ pad_cleared = FALSE

NextKey ==
    \/ \E pressed \in BOOLEAN, repeat \in BOOLEAN, fail \in BOOLEAN :
           handle_key_event(pressed, repeat, fail)
    \/ \E slot \in ControllerSlots, pressed \in BOOLEAN, fail \in BOOLEAN :
           handle_controller_event(slot, pressed, fail)
    \/ \E slot \in ControllerSlots, fail \in BOOLEAN :
           handle_controller_axis(slot, fail)

SpecKey == InitKey /\ [][NextKey]_vars

\* The UI of a running deck, in any of its modes
UiRunning ==
    /\ ui_mode \in MouseModes
    /\ ui_error = None
    /\ ui_message = "none"
    /\ engine = "run"
    /\ deck_running = TRUE
    /\ cpu_sp = PowerOnSp
    /\ cpu_i = TRUE
    /\ ppu_w = FALSE
    /\ wram = [a \in WramAddrs |-> 0]

\* The debugger's step actions on a program
InitStep ==
    FrameInit /\ DeckInit /\ mapper = Mapper_none /\ call = CallNone /\ UpdateIdle
    /\ PadIdle /\ StartIdle /\ CoreIdle /\ CpuInit /\ UiRunning /\ ZapIdle
    /\ KeyInit /\ key_bindings = [s \in KeySlotSet |-> NoAction]
    /\ StepInit

NextStep ==
    \/ \E action \in {"StepInto", "StepOver", "StepOut"} : handle_debug(action)
    \/ step_over_loop
    \/ step_out_loop

SpecStep == InitStep /\ [][NextStep]_vars

\* Once handle_debug has entered a loop, the loop's code keeps running.
SpecStepFair == SpecStep /\ WF_vars(StepLoop)

\* Mouse events in every mode
InitMouse ==
    FrameInit /\ DeckInit /\ mapper = Mapper_none /\ call = CallNone /\ UpdateIdle
    /\ PadIdle /\ StartIdle /\ CoreIdle /\ CpuInit /\ UiRunning /\ KeyIdle /\ StepIdle
    /\ ZapInit

NextMouse ==
    \/ \E btn \in MouseButtons, clicked \in BOOLEAN, focus \in BOOLEAN :
           handle_mouse_event(btn, clicked, focus)
    \/ \E pos \in MousePoints, focus \in BOOLEAN : handle_mouse_motion(pos, focus)
    \/ \E state \in {"ToggleMenu", "TogglePause"} : nes_state(state)

SpecMouse == InitMouse /\ [][NextMouse]_vars

\* Once the host has entered a loop, the loop's code keeps running.
SpecDeckFair == SpecDeck /\ WF_vars(DeckLoop)

\* Unless the CPU jams, a deck loop that was entered returns.
LoopsReturnUnlessJammed == (pc # "idle" /\ ~jammed) ~> (pc = "idle" \/ jammed)

---------------------------------------------------------------------------
(* Claims about the deck loops (SpecDeck, SpecDeckFair) *)

\* C1: inside clock_frame, clock() is called only while neither cpu_break
\* nor frame_complete is set; while neither is set the loop does nothing but
\* call clock(); and when clock_frame returns both flags are false.
C1_ClockFrameRunsToFlag ==
    [][ /\ (pc = "clock_frame" /\ tick' # tick) => (~cpu_break /\ ~frame_complete)
        /\ (pc = "clock_frame" /\ ~cpu_break /\ ~frame_complete)
              => (tick' # tick /\ pc' = "clock_frame")
        /\ (pc = "clock_frame" /\ pc' = "idle")
              => ((cpu_break \/ frame_complete) /\ ~cpu_break' /\ ~frame_complete')
      ]_vars

\* C1 witness: clock_frame has returned because the PPU completed a frame.
C1_Witness ==
    /\ pc = "idle" /\ last_exit = "frame_complete"
    /\ ~cpu_break /\ ~frame_complete /\ tick

\* C2: every call of clock_frame or clock_seconds returns, from every
\* reachable deck state, a jammed CPU included.
C2_DeckLoopsReturn == (pc # "idle") ~> (pc = "idle")

\* C3: with no cartridge, nothing power_on or clock() does aborts.
C3_NoCartNeverAborts == deck_panic = "none"

\* C3 witness: after power_on, a clock() whose fetch the Empty mapper answered.
C3_Witness == powered /\ tick /\ bus_src = "mapper" /\ mapper = Mapper_none

---------------------------------------------------------------------------
(* Claims about the Frame (SpecFrame) *)

\* C4: a put_pixel leaves the front buffer, and so the bytes decode_buffer
\* would hand to the host, as they were.
C4_PutPixelKeepsFront ==
    [][ frame_op' = "put_pixel" =>
          /\ front_buffer' = front_buffer
          /\ DecodeFrom(0, front_buffer', output_buffer').out
                = DecodeFrom(0, front_buffer, output_buffer).out ]_vars

\* C4 witness: a put_pixel has stored a colour the front buffer does not hold.
C4_Witness ==
    /\ frame_op = "put_pixel" /\ frame_panic = "none"
    /\ \E i \in DOMAIN back_buffer : back_buffer[i] # 0 /\ front_buffer[i] = 0

\* C5: swap_buffers exchanges the buffers exactly, two swaps in a row restore
\* both, and only swap_buffers and reset change the front buffer.
C5_SwapExchanges ==
    /\ [](LET s1 == SwapBuffers(front_buffer, back_buffer)
              s2 == SwapBuffers(s1.front, s1.back)
          IN  s2.front = front_buffer /\ s2.back = back_buffer)
    /\ [][ /\ frame_op' = "swap_buffers"
                => (front_buffer' = back_buffer /\ back_buffer' = front_buffer)
           /\ front_buffer' # front_buffer
                => frame_op' \in {"swap_buffers", "reset"} ]_vars

\* C5 witness: a swap has exchanged two buffers that differ.
C5_Witness == frame_op = "swap_buffers" /\ front_buffer # back_buffer

\* C6: every 4th byte of the output buffer is 255, the output buffer is
\* four times as long as the front buffer, and the length assertion of the
\* decoders never fails.
C6_AlphaOpaque ==
    /\ \A i \in DOMAIN output_buffer :
          i % RENDER_CHANNELS = RENDER_CHANNELS - 1 => output_buffer[i] = 255
    /\ Len0(front_buffer) * 4 = Len0(output_buffer)
    /\ Len0(output_buffer) = RENDER_WIDTH * RENDER_HEIGHT * 4
    /\ frame_panic # "len_assert"

\* C6 witness: the NTSC filter has written colour bytes into the output.
C6_Witness ==
    /\ frame_op = "apply_ntsc_filter" /\ frame_panic = "none"
    /\ \E i \in DOMAIN output_buffer : i % 4 # 3 /\ output_buffer[i] # 0

\* C7: the palette lookup of decode_buffer never leaves the master palette,
\* and after decode_buffer the RGB bytes of each pixel are those of palette
\* entry (pixel mod SYSTEM_PALETTE_SIZE).
C7_DecodeByPalette ==
    /\ frame_panic # "palette_index"
    /\ (frame_op = "decode_buffer" /\ frame_panic = "none") =>
          \A i \in DOMAIN front_buffer :
             LET c == SYSTEM_PALETTE(front_buffer[i] % SYSTEM_PALETTE_SIZE) IN
                /\ output_buffer[4 * i] = c[1]
                /\ output_buffer[4 * i + 1] = c[2]
                /\ output_buffer[4 * i + 2] = c[3]

\* C7 witness: decode_buffer has coloured two pixels above the palette size
\* that fall on different palette entries.
C7_Witness ==
    /\ frame_op = "decode_buffer" /\ frame_panic = "none"
    /\ \E i, j \in DOMAIN front_buffer :
          front_buffer[i] = 65535 /\ front_buffer[j] = 512

\* C8: whatever colour put_pixel stored, for every previous pixel and frame
\* number the NTSC table index of every pixel that is looked up is inside
\* the table.
C8_NtscIndexInTable ==
    \A idx \in DOMAIN front_buffer :
       idx % RENDER_WIDTH # 0 =>
          \A prev \in Colors \cup {PrevPixelNew}, n \in 0 .. MaxNum :
             NtscIndex(NtscPhase(idx, n), prev, front_buffer[idx]) < NTSC_PALETTE_LEN

---------------------------------------------------------------------------
(* Claims about the mappers (SpecMapper) *)

\* C9: the Empty mapper stays Empty; its reads and writes resolve to None at
\* every address, it raises no IRQ, reports no mirroring and uses CIRAM.
C9_EmptyMapperInert ==
    mapper.kind = "Empty" =>
       /\ mapper = Mapper_none
       /\ call.op \in {"map_read", "map_peek"} => call.ret = MappedRead_None
       /\ call.op = "map_write" => call.ret = MappedWrite_None
       /\ \A a \in Addrs :
             /\ map_read(mapper, a) = MappedRead_None
             /\ map_peek(mapper, a) = MappedRead_None
             /\ use_ciram(mapper, a) = TRUE
             /\ \A v \in Vals : map_write(mapper, a, v) = MappedWrite_None
       /\ irq_pending(mapper) = FALSE
       /\ mirroring(mapper) = None

\* C9 witness: the Empty mapper has been written at the top of the address space.
C9_Witness ==
    mapper.kind = "Empty" /\ call.op = "map_write" /\ call.addr = 65535 /\ call.val = 255

\* C10: use_ciram answers false exactly when the mapper's mirroring is
\* Some(FourScreen), at every address.
C10_CiramUnlessFourScreen ==
    call.op = "use_ciram" =>
       LET mode == IF mapper.kind = "Cart" THEN mapper.mirroring ELSE None IN
          (call.ret = FALSE) <=> (mode = Some("FourScreen"))

\* C10 witness: a four-screen cartridge has been asked and bypasses CIRAM.
C10_Witness ==
    call.op = "use_ciram" /\ call.ret = FALSE /\ mapper.kind = "Cart"


---------------------------------------------------------------------------
(* Claims about the update callback (SpecUpdate) *)

\* No sample occurs twice in the sequence q.
NoDuplicates(q) == \A i, j \in 1 .. Len(q) : q[i] = q[j] => i = j

---------------------------------------------------------------------------
(* Claims about the gamepads (SpecPad) *)

\* C12: with concurrent_dpad disabled throughout and nothing pressed at
\* first, no sequence of gamepad presses, releases and ZeroAxis releases
\* leaves a gamepad with Left and Right both pressed or with Up and Down
\* both pressed.
C12_NoOpposingDirections ==
    ~dpad_ever =>
        \A slot \in GamepadSlots :
            /\ ~(gamepads[slot].left /\ gamepads[slot].right)
            /\ ~(gamepads[slot].up /\ gamepads[slot].down)

\* A direction was pressed while its opposite was held, D-Pad never concurrent.
C12_Witness ==
    /\ ~dpad_ever
    /\ pad_cleared
    /\ \E slot \in GamepadSlots : gamepads[slot].right /\ gamepads[slot].down

---------------------------------------------------------------------------
(* Claims about the start callback (SpecStart) *)

\* on_start went through the single-ROM branch (nes.rs:177-208).
RomStarted == started = "Ok(true)" /\ before_load = DeckPoweredOn

\* The positions of the configured codes that parse / fail to parse.
ParsingCodes == {i \in DOMAIN genie_codes : genie_codes[i].len \in {6, 8} /\ genie_codes[i].legal}

FailingCodes == DOMAIN genie_codes \ ParsingCodes

GenieErrors == {k \in DOMAIN messages : messages[k] \in {"bad-length", "illegal-character"}}

\* C13: when the configured Game Genie codes are added at start, each code
\* that fails to parse queues exactly one error message and changes nothing
\* else, and every code that parses is active afterwards, also those that
\* come after a failing one.
C13_BadGenieCodeOnlyReported ==
    RomStarted =>
        /\ genie = {genie_codes[i] : i \in ParsingCodes}
        /\ Cardinality(GenieErrors) = Cardinality(FailingCodes)
        /\ deck_state = IF load_result = "ok"
                        THEN [c \in DOMAIN deck_state |-> save_file.val]
                        ELSE before_load

\* A failing code came first in the list and a later code is active.
C13_Witness ==
    /\ RomStarted
    /\ Len(genie_codes) >= 2
    /\ 1 \in FailingCodes
    /\ \E i \in ParsingCodes : i > 1 /\ genie_codes[i] \in genie

\* C14: a load_state that fails (bad magic, incompatible version or
\* corrupt body) leaves every component of the deck as it was when
\* load_state was called.
C14_FailedLoadKeepsDeck ==
    load_result \in {"bad-magic", "incompatible-version", "corrupt-body"} =>
        deck_state = before_load

\* A load failed after part of the body had been read.
C14_Witness ==
    /\ started = "Ok(true)"
    /\ load_result = "corrupt-body"
    /\ save_file.good >= 2
    /\ deck_state = DeckPoweredOn

---------------------------------------------------------------------------
(* Claims about the clocked core (SpecCore) *)

\* C15: once the CPU has executed a KIL opcode, every clock() returns 0
\* cycles, leaves the program counter where it is and leaves the CPU
\* jammed; no clock() raises an error (it only ever returns a cycle count).
C15_JamIsForever ==
    [][(core_jam /\ core_ret' >= 0) =>
          (core_ret' = 0 /\ cpu_pc' = cpu_pc /\ core_jam')]_vars

\* A jammed CPU has been clocked again.
C15_Witness == core_jam /\ core_ret = 0 /\ core_cycles < MaxCoreCycles

\* The distance of a and b.
AbsDiff(a, b) == IF a >= b THEN a - b ELSE b - a

\* C16: the PPU dots advanced are 3 times the CPU cycles consumed on NTSC
\* and Dendy; on PAL they are 16 per 5 cycles, less than one dot off
\* (16 * cycles and 5 * dots differ by less than 5); the APU is clocked
\* once per CPU cycle.
C16_StrictRatio ==
    /\ core_apu = core_cycles
    /\ nes_region \in {"Ntsc", "Dendy"} => core_dots = 3 * core_cycles
    /\ nes_region = "Pal" => AbsDiff(16 * core_cycles, 5 * core_dots) < 5

\* Five PAL cycles, started with the accumulator part-filled, ran 16 dots.
C16_Witness ==
    /\ nes_region = "Pal"
    /\ core_cycles = 5
    /\ core_dots = 16
    /\ pal_acc # 0

PpuCountersInRangeOfWidestRegion ==
    /\ scanline \in PreRender .. NtscLines + PalExtraLines - 2
    /\ dot \in 0 .. LastDot

---------------------------------------------------------------------------
(* Claims about the CPU cycle by cycle (SpecCpu) *)

\* The step is a CPU cycle.
CpuCycled == cpu_odd' # cpu_odd

\* C18: an OAM DMA stalls the CPU for 2 * 256 + 1 = 513 cycles, 514 when
\* it starts on an odd cycle; while it lasts every CPU cycle is a stall
\* cycle (no opcode fetch, no interrupt sequence), the PPU runs 3 dots and
\* the APU one clock in every stalled cycle, and when it is over all the
\* bytes have been copied to OAM.
C18_OamDmaStall ==
    /\ [](/\ stall_ppu = 3 * stall_cycles
          /\ stall_apu = stall_cycles
          /\ (dma_started /\ dma_left = 0) =>
                /\ stall_cycles = 2 * OamBytes + 1 + (IF dma_odd THEN 1 ELSE 0)
                /\ oam_copied = OamBytes)
    /\ [][(dma_left > 0 /\ CpuCycled) => cpu_event' = "stall"]_vars

\* An OAM DMA that started on an odd cycle has just ended.
C18_Witness ==
    /\ dma_started /\ dma_left = 0 /\ dma_odd
    /\ cpu_event = "stall"
    /\ stall_cycles = 2 * OamBytes + 2

\* C19: an interrupt sequence starts only between instructions; with an
\* NMI latched and an IRQ pending the NMI is taken first, and no opcode
\* (BRK included) is fetched while an interrupt is pending; servicing the
\* NMI clears its latch; an IRQ is taken only with the line asserted and
\* the I flag clear, and then it is taken at the next instruction boundary.
C19_InterruptPriority ==
    [][CpuCycled =>
         /\ cpu_event' \in {"NMI", "IRQ"} => AtBoundary
         /\ (AtBoundary /\ nmi_latch) => (cpu_event' = "NMI" /\ ~nmi_latch')
         /\ cpu_event' = "IRQ" => (irq_line /\ ~flag_i /\ ~nmi_latch)
         /\ (AtBoundary /\ irq_line /\ ~flag_i /\ ~nmi_latch) => cpu_event' = "IRQ"
         /\ cpu_event' = "fetch" => (~nmi_latch /\ (flag_i \/ ~irq_line))]_vars

\* The NMI was taken with an IRQ pending as well, which is still waiting.
C19_Witness ==
    /\ cpu_event = "NMI"
    /\ ~nmi_latch
    /\ irq_line /\ ~flag_i
    /\ instr_left = InterruptCycles - 1

---------------------------------------------------------------------------
(* Claims about the emulator-state actions (SpecUi) *)

\* C20: the Reset action leaves work RAM unchanged, takes 3 off the stack
\* pointer modulo 256 (so it stays in 0..255), sets the interrupt-disable
\* flag and clears the PPU write toggle; the UI mode is unchanged and the
\* stored UI error is cleared.
C20_SoftReset ==
    [][nes_state("Reset") =>
         /\ wram' = wram
         /\ cpu_sp' = (cpu_sp - 3) % 256
         /\ cpu_sp' \in 0 .. 255
         /\ cpu_i'
         /\ ~ppu_w'
         /\ ui_mode' = ui_mode
         /\ ui_error' = None]_vars

\* A reset wrapped the stack pointer below 0 with RAM written and the
\* emulation paused.
C20_Witness ==
    /\ ui_message = "Reset"
    /\ cpu_sp = 255
    /\ cpu_i /\ ~ppu_w
    /\ wram[2047] = 255
    /\ ui_mode = "Paused"
    /\ ui_error = None

---------------------------------------------------------------------------
(* Claims about the pacing and the rewind snapshots of on_update (SpecPace) *)

\* A step of on_update: the engine calls it only once on_start has returned.
UpdateStep == started = "Ok(true)" /\ started' = "Ok(true)"

\* The slot that follows slot s in the cycle of the rewind slots; 0 is no slot.
NextRewindSlot(s) ==
    IF s = 0 \/ s = REWIND_SIZE - 1 THEN REWIND_START ELSE s + 1

\* C21: every rewind snapshot is saved to a slot of REWIND_START ..
\* REWIND_SIZE - 1, the slots being taken in cyclic order; no on_update adds
\* a slot below REWIND_START to the disk; and the cleanup of on_start
\* removes no slot outside REWIND_START .. REWIND_SIZE - 1 and adds none.
C21_RewindSlotsOnly ==
    /\ [](/\ snap_taken => last_saved \in RewindSlots
          /\ \A i \in 1 .. Len(rewind_queue) : rewind_queue[i] \in RewindSlots)
    /\ [][/\ (UpdateStep /\ snap_taken') =>
                /\ last_saved' = NextRewindSlot(last_saved)
                /\ slot_files' = slot_files \union {last_saved'}
          /\ (UpdateStep /\ ~snap_taken') => slot_files' = slot_files
          /\ (started = "new" /\ started' # "new") =>
                /\ slot_files' \subseteq slot_files
                /\ (slot_files \ slot_files') \subseteq RewindSlots
                /\ \A k \in 0 .. REWIND_START - 1 : k \in slot_files => k \in slot_files'
         ]_vars

\* The snapshots have gone once around the slots, after a start-up that
\* removed the stale snapshots and kept the user's slot.
C21_Witness ==
    /\ snap_taken
    /\ last_saved = REWIND_START
    /\ Len(rewind_queue) = REWIND_SIZE - REWIND_START + 1
    /\ 1 \in slot_files

\* C22: the rewind queue never holds the same slot number twice.
C22_NoSlotQueuedTwice == NoDuplicates(rewind_queue)

\* C23: the rewind queue holds at most REWIND_SIZE entries, a snapshot taken
\* with the queue full drops the oldest entry and appends the new slot, and
\* after each snapshot rewind_slot is the queue length.
C23_QueueBounded ==
    /\ [](/\ Len(rewind_queue) <= REWIND_SIZE
          /\ snap_taken => rewind_slot = Len(rewind_queue))
    /\ [][(UpdateStep /\ snap_taken') =>
             rewind_queue' = IF Len(rewind_queue) = REWIND_SIZE
                             THEN Append(Tail(rewind_queue), last_saved')
                             ELSE Append(rewind_queue, last_saved')
         ]_vars

\* The queue is full and its oldest entry has been dropped.
C23_Witness ==
    /\ snap_taken
    /\ Len(rewind_queue) = REWIND_SIZE
    /\ rewind_queue[1] = REWIND_START + 1
    /\ rewind_slot = REWIND_SIZE

\* C24: a snapshot is taken only with rewind_enabled and save_enabled set
\* and REWIND_TIMER seconds elapsed since the previous one; one on_update
\* takes at most one snapshot, and the timer restarts at REWIND_TIMER.
C24_SnapshotEveryRewindTimer ==
    /\ [](snap_taken =>
             /\ rewind_enabled /\ save_enabled
             /\ since_snapshot = REWIND_TIMER
             /\ rewind_timer = REWIND_TIMER)
    /\ [][UpdateStep =>
             /\ Len(rewind_queue') <= Len(rewind_queue) + 1
             /\ snap_taken' => rewind_save' = last_saved' + 1
             /\ ~snap_taken' => (rewind_queue' = rewind_queue /\ rewind_save' = rewind_save)
         ]_vars

\* A second snapshot has been taken, the time since the first one having
\* come from one long update or from several short ones.
C24_Witness ==
    /\ snap_taken
    /\ rewind_slot = 2
    /\ since_snapshot = REWIND_TIMER
    /\ rewind_save = REWIND_START + 2

\* C25: no rewind snapshot is taken by an update that left the deck paused.
C25_NoSnapshotWhilePaused == ~(snap_taken /\ paused)

Ceil(a, b) == (a + b - 1) \div b

\* C27: with the frame rate locked, after every update speed_counter is in
\* (-100, 0] and the clock_frame calls of N unpaused updates number
\* ceil(N * speed): one an update at 100 %, 1,0,1,0.. at 50 %, 2,1,2,1.. at
\* 150 %; turbo_clock advances by one modulo 6 with every frame.
C27_FramesFollowSpeed ==
    /\ [](~unlock_fps =>
             /\ speed_counter > 0 - 100 /\ speed_counter <= 0
             /\ frames_run = Ceil(speed_updates * speed, 100)
             /\ turbo_clock = frames_run % 6
             /\ turbo_clock \in 0 .. 5)
    /\ [][(UpdateStep /\ ~unlock_fps /\ speed_updates' = speed_updates + 1) =>
             /\ speed = 100 => frames_now' = 1
             /\ speed = 50 => frames_now' = speed_updates' % 2
             /\ speed = 150 => frames_now' = 1 + (speed_updates' % 2)
             /\ turbo_clock' = (turbo_clock + frames_now') % 6
         ]_vars

\* Five updates at a quarter of the speed have run two frames.
C27_Witness ==
    /\ ~unlock_fps
    /\ speed = 25
    /\ speed_updates = 5
    /\ frames_run = 2
    /\ speed_counter = 0 - 75

---------------------------------------------------------------------------
(* Claims about the cycle debt of clock_seconds (SpecSeconds) *)

\* C28: when clock_seconds returns without a breakpoint, cycles_remaining
\* is <= 0 and above minus the cycles of one clock() step, and so are the
\* cycles asked for less the cycles run, over all the calls since the last
\* breakpoint; when a breakpoint stops it, cycles_remaining is 0; cpu_break
\* is false on return.
C28_SecondsDebtCarried ==
    /\ []((pc = "idle" /\ last_exit = "cycles") =>
             /\ cycles_remaining <= 0 /\ cycles_remaining > 0 - MaxInstrCycles
             /\ cycles_owed <= 0 /\ cycles_owed > 0 - MaxInstrCycles)
    /\ []((pc = "idle" /\ last_exit = "cpu_break") => cycles_remaining = 0)
    /\ [][(pc = "clock_seconds" /\ pc' = "idle") => ~cpu_break']_vars

\* What the loop does guarantee: the counter it leaves is a debt of less
\* than one step, 0 after a breakpoint, and cpu_break is cleared.
SecondsCounterLeftInRange ==
    /\ []((pc = "idle" /\ last_exit = "cycles") =>
             (cycles_remaining <= 0 /\ cycles_remaining > 0 - MaxInstrCycles))
    /\ []((pc = "idle" /\ last_exit = "cpu_break") => cycles_remaining = 0)
    /\ [][(pc = "clock_seconds" /\ pc' = "idle") => ~cpu_break']_vars

---------------------------------------------------------------------------
(* Claims about key events (SpecKey) *)

\* The key is bound to no debug action under any slot.
NoDebugBound == \A s \in KeySlotSet : key_bindings[s].kind # "Debug"

\* C29: a repeated key event runs no bound action other than a debug
\* action: it leaves the gamepads, the speed and the configuration as they
\* were, and, when the key is bound to no debug action, the mode as well and
\* the deck unclocked, whether the key is pressed or released.
C29_RepeatRunsOnlyDebug ==
    [][last_key'.repeat =>
          /\ \A i \in 1 .. Len(key_ran') : key_bindings[key_ran'[i]].kind = "Debug"
          /\ UNCHANGED <<gamepads, concurrent_dpad, speed, fullscreen>>
          /\ key_result' = "Ok(false)"
          /\ NoDebugBound => (UNCHANGED ui_mode /\ ~key_stepped' /\ key_ran' = << >>)]_vars

\* A repeated press of a key bound to a gamepad button under slot One and
\* to a setting under slot Two has come in and none of the two has run.
C29_Witness ==
    /\ last_key = [pressed |-> TRUE, repeat |-> TRUE]
    /\ key_bindings["One"] = [kind |-> "Gamepad", arg |-> "A"]
    /\ key_bindings["Two"] = [kind |-> "Setting", arg |-> "FastForward"]
    /\ key_result = "Ok(false)"
    /\ key_ran = << >>
    /\ ~gamepads["One"].a
    /\ speed = 100

\* C30: one key event runs at most one of the actions the key is bound to,
\* the one of the first slot that has a binding for it.
C30_AtMostOneBoundAction == Len(key_ran) <= 1

\* C31: when an action that a key event runs returns an error,
\* handle_key_event returns that error, as handle_controller_event and
\* handle_controller_axis do for the action they run.
C31_KeyErrorSurfaced ==
    /\ (last_source = "key" /\ key_erred) => key_result = "Err"
    /\ (last_source \in {"button", "axis"} /\ key_erred) => key_result = "Err"

\* What holds of the code: the controller handlers return the error.
ControllerErrorSurfaced ==
    (last_source \in {"button", "axis"}) => (key_erred <=> key_result = "Err")

---------------------------------------------------------------------------
(* Claims about the debugger steps (SpecStep, SpecStepFair) *)

\* C32: every StepOver and StepOut returns after finitely many clock()
\* calls, whatever the program does, a subroutine that does not come back
\* to the address after its call and a jammed CPU included.
C32_StepsReturn == (step_at # "idle") ~> (step_at = "idle")

\* What holds of the code: the steps return on a program whose subroutine
\* returns to its caller.
StepsReturnFromPlainCall ==
    (step_at # "idle" /\ step_prog = ProgReturns) ~> (step_at = "idle")

---------------------------------------------------------------------------
(* Claims about the zapper and the mouse (SpecMouse) *)

\* A mouse handler runs in this step.
MouseStep == last_mouse'.seq # last_mouse.seq

=============================================================================
